---- MODULE Spec2Model ----
(***************************************************************************)
(* LiveTraffic, LTApt.cpp: airports read from apt.dat files by a           *)
(* background thread into the global map gmapApt, the foreground           *)
(* orchestration LTAptRefresh / LTAptDisable, and the foreground queries   *)
(* LTAptSnap / LTAptFindRwy.                                               *)
(*                                                                         *)
(* Coordinates are integers: a position is (lat, lon) in metres north and  *)
(* east of an origin, the planar approximation DistLatLonSqr itself uses.  *)
(* A double that is NaN is the value NAN.  Vector indices are 0-based as   *)
(* in the source; the TLA+ sequences holding the vectors are 1-based.      *)
(***************************************************************************)
EXTENDS Integers, Sequences, FiniteSets, TLC

\* ------------------------------------------------------------------ bounds
\* camera positions offered to the model: lon = i * CamStep, i \in 0..MaxCam
MaxCam == 2
CamStep == 60
\* the inputs SourceLists[1..MaxInput] are offered to a scan
MaxInput == 3

\* ------------------------------------------------------- program constants
NAN == -1000000
APT_MIN_TAXI_SEGM_LEN_M == 10
APT_MIN_TAXI_SEGM_LEN_M2 == APT_MIN_TAXI_SEGM_LEN_M * APT_MIN_TAXI_SEGM_LEN_M
\* dataRefs.GetFdStdDistance_m(): standard search radius for planes
FdStdDistance_m == 100
\* dataRefs.GetFdSnapTaxiDist_m(): snapping distance, 0 = snapping is off
FdSnapTaxiDist_m == 5
\* ground altitude a successful Y probe returns
TerrainAlt_m == 3
\* length of one degree of latitude in metres (rounded)
LAT_DEG_IN_MTR == 111133

isnan(x) == x = NAN
sqr(a) == a * a
Max(a, b) == IF a >= b THEN a ELSE b
Min(a, b) == IF a <= b THEN a ELSE b
Abs(a) == IF a >= 0 THEN a ELSE -a

\* the element of a set of one element
The(S) == CHOOSE x \in S : TRUE

\* integer square root (std::sqrt rounded down)
sqrt(n) == IF n <= 0 THEN 0 ELSE CHOOSE r \in 0..n : sqr(r) <= n /\ sqr(r + 1) > n

\* ---------------------------------------------------------------- geometry
positionTy(lat, lon) == [lat |-> lat, lon |-> lon]
NanPos == positionTy(NAN, NAN)

\* positionTy::isNormal: a good valid position
isNormal(p) == ~isnan(p.lat) /\ ~isnan(p.lon)

\* DistLatLonSqr: estimated square of the distance, plain Pythagoras on metres
DistLatLonSqr(lat1, lon1, lat2, lon2) == sqr(lat2 - lat1) + sqr(lon2 - lon1)

\* lastCameraPos.dist(camera) < radius; false if either position is NaN
DistLess(p, q, radius) ==
    /\ isNormal(p)
    /\ isNormal(q)
    /\ DistLatLonSqr(p.lat, p.lon, q.lat, q.lon) < sqr(radius)

\* 10000 * tan(t - 0.5 degrees) for t = 1..45
TanHalf10000 ==
    <<87, 262, 437, 612, 787, 963, 1139, 1317, 1495,
      1673, 1853, 2035, 2217, 2401, 2586, 2773, 2962, 3153,
      3346, 3541, 3739, 3939, 4142, 4348, 4557, 4770, 4986,
      5206, 5430, 5658, 5890, 6128, 6371, 6619, 6873, 7133,
      7400, 7673, 7954, 8243, 8541, 8847, 9163, 9490, 9827>>

\* atan(b / a) in whole degrees, rounded, for 0 <= b <= a
AtanDeg(b, a) ==
    IF a = 0 THEN 0
    ELSE Cardinality({t \in 1..45 : b * 10000 >= TanHalf10000[t] * a})

\* CoordAngle: heading from point 1 to point 2 in degrees [0,360), rounded to
\* the whole degree; exact for the eight compass directions
CoordAngle(lat1, lon1, lat2, lon2) ==
    LET dN == lat2 - lat1
        dE == lon2 - lon1
        a == IF dN < 0 THEN -dN ELSE dN
        b == IF dE < 0 THEN -dE ELSE dE
        ang == IF b <= a THEN AtanDeg(b, a) ELSE 90 - AtanDeg(a, b)
    IN  CASE dN >= 0 /\ dE >= 0 -> ang
          [] dN < 0 /\ dE >= 0 -> 180 - ang
          [] dN < 0 /\ dE < 0 -> 180 + ang
          [] OTHER -> (360 - ang) % 360

\* bounding box: north-west and south-east corner
boundingBoxTy(nw, se) == [nw |-> nw, se |-> se]
NanBox == boundingBoxTy(NanPos, NanPos)

\* boundingBoxTy::enlarge_pos: increase the box to include the position
enlarge_pos(b, lat, lon) ==
    IF isnan(b.nw.lat)
    THEN boundingBoxTy(positionTy(lat, lon), positionTy(lat, lon))
    ELSE boundingBoxTy(positionTy(Max(b.nw.lat, lat), Min(b.nw.lon, lon)),
                       positionTy(Min(b.se.lat, lat), Max(b.se.lon, lon)))

\* boundingBoxTy::enlarge_m: enlarge the box by x metres on each side
enlarge_m(b, x) ==
    IF isnan(b.nw.lat)
    THEN b
    ELSE boundingBoxTy(positionTy(b.nw.lat + x, b.nw.lon - x),
                       positionTy(b.se.lat - x, b.se.lon + x))

\* boundingBoxTy(center, width): box of the given width around the center
BoxAround(center, width) ==
    enlarge_m(boundingBoxTy(center, center), width \div 2)

\* boundingBoxTy::contains
contains(b, pos) ==
    /\ ~isnan(b.nw.lat)
    /\ isNormal(pos)
    /\ b.se.lat <= pos.lat /\ pos.lat <= b.nw.lat
    /\ b.nw.lon <= pos.lon /\ pos.lon <= b.se.lon

\* boundingBoxTy::overlap: do both boxes overlap?
overlap(b, o) ==
    /\ ~isnan(b.nw.lat)
    /\ ~isnan(o.nw.lat)
    /\ b.se.lat <= o.nw.lat /\ o.se.lat <= b.nw.lat
    /\ b.nw.lon <= o.se.lon /\ o.nw.lon <= b.se.lon

\* boundingBoxTy::center
center(b) ==
    IF isnan(b.nw.lat) THEN NanPos
    ELSE positionTy((b.nw.lat + b.se.lat) \div 2, (b.nw.lon + b.se.lon) \div 2)

\* XPLMWorldToLocal with the reference point at the origin:
\* x is the east axis, z the south axis
WorldToLocalX(lat, lon) == lon
WorldToLocalZ(lat, lon) == -lat

\* ------------------------------------------------- TaxiNode, RwyEndPt, edge
\* (RwyEndPt::y is written only, never read, and is left out)
\* faulty variant of TaxiNode: the local coordinates are there from the start
TaxiNodeLocal(lat, lon) ==
    [lat |-> lat, lon |-> lon, x |-> WorldToLocalX(lat, lon), z |-> WorldToLocalZ(lat, lon)]
TaxiNode(lat, lon) == [lat |-> lat, lon |-> lon, x |-> NAN, z |-> NAN]
RwyEndPt(id, lat, lon) ==
    [id |-> id, lat |-> lat, lon |-> lon, x |-> NAN, z |-> NAN, alt_m |-> NAN]

HasGeoCoords(n) == ~isnan(n.lat) /\ ~isnan(n.lon)
HasLocalCoords(n) == ~isnan(n.x) /\ ~isnan(n.z)

\* TaxiNode::LocalCoordsUpdate and RwyEndPt::LocalCoordsUpdate
NodeLocalCoordsUpdate(n, bForce) ==
    IF bForce \/ isnan(n.x)
    THEN [n EXCEPT !.x = WorldToLocalX(n.lat, n.lon),
                   !.z = WorldToLocalZ(n.lat, n.lon)]
    ELSE n

\* faulty variant of TaxiEdge: the angle is normalized, the nodes stay
TaxiEdgeNoSwap(t, a, b, angle, dist_m) ==
    [type |-> t, a |-> a, b |-> b,
     angle |-> IF angle >= 180 THEN angle - 180 ELSE angle, dist_m |-> dist_m]

\* TaxiEdge constructor: edges are normalized to 0 <= angle < 180
TaxiEdge(t, a, b, angle, dist_m) ==
    IF angle >= 180
    THEN [type |-> t, a |-> b, b |-> a, angle |-> angle - 180, dist_m |-> dist_m]
    ELSE [type |-> t, a |-> a, b |-> b, angle |-> angle, dist_m |-> dist_m]

\* ---------------------------------------------------------------------- Apt
Apt(id) ==
    [id |-> id, bounds |-> NanBox, alt_m |-> NAN,
     vecTaxiNodes |-> <<>>, vecRwyEndPts |-> <<>>, vecTaxiEdges |-> <<>>]

HasId(apt) == apt.id # ""
\* faulty variant of HasTaxiWays: the edges are not looked at
NoTaxiWays(apt) == FALSE
HasTaxiWays(apt) == apt.vecTaxiEdges # <<>>
HasRwyEndpoints(apt) == apt.vecRwyEndPts # <<>>
\* faulty variant of IsValid: an id is all it takes
IsValidWithId(apt) == HasId(apt)
IsValid(apt) == HasId(apt) /\ HasTaxiWays(apt) /\ HasRwyEndpoints(apt)

\* Apt::AddTaxiNode; the index returned is Len(vecTaxiNodes') - 1
AddTaxiNode(apt, lat, lon) ==
    [apt EXCEPT !.bounds = enlarge_pos(apt.bounds, lat, lon),
                !.vecTaxiNodes = Append(apt.vecTaxiNodes, TaxiNode(lat, lon))]

\* Apt::AddTaxiEdge succeeds?
AddTaxiEdgeOK(apt, n1, n2) ==
    /\ n1 >= 0 /\ n1 < Len(apt.vecTaxiNodes)
    /\ n2 >= 0 /\ n2 < Len(apt.vecTaxiNodes)
    /\ HasGeoCoords(apt.vecTaxiNodes[n1 + 1])
    /\ HasGeoCoords(apt.vecTaxiNodes[n2 + 1])

\* faulty variant of AddTaxiEdge: an edge of heading 0 is added between nodes
\* that lack geographic coordinates
AddTaxiEdgeAnyNode(apt, n1, n2, dist) ==
    IF n1 >= Len(apt.vecTaxiNodes) \/ n2 >= Len(apt.vecTaxiNodes)
    THEN apt
    ELSE LET a == apt.vecTaxiNodes[n1 + 1]
             b == apt.vecTaxiNodes[n2 + 1]
         IN  [apt EXCEPT !.vecTaxiEdges =
                 Append(apt.vecTaxiEdges,
                        IF HasGeoCoords(a) /\ HasGeoCoords(b)
                        THEN TaxiEdge("TAXI_WAY", n1, n2,
                                      CoordAngle(a.lat, a.lon, b.lat, b.lon),
                                      IF isnan(dist)
                                      THEN sqrt(DistLatLonSqr(a.lat, a.lon, b.lat, b.lon))
                                      ELSE dist)
                        ELSE TaxiEdge("TAXI_WAY", n1, n2, 0, dist))]

\* Apt::AddTaxiEdge: the airport afterwards (unchanged on failure);
\* _dist = NAN means: compute the distance (not used by the parser)
AddTaxiEdge(apt, n1, n2, dist) ==
    IF ~AddTaxiEdgeOK(apt, n1, n2)
    THEN apt
    ELSE LET a == apt.vecTaxiNodes[n1 + 1]
             b == apt.vecTaxiNodes[n2 + 1]
         IN  [apt EXCEPT !.vecTaxiEdges =
                 Append(apt.vecTaxiEdges,
                        TaxiEdge("TAXI_WAY", n1, n2,
                                 CoordAngle(a.lat, a.lon, b.lat, b.lon),
                                 IF isnan(dist)
                                 THEN sqrt(DistLatLonSqr(a.lat, a.lon, b.lat, b.lon))
                                 ELSE dist))]

\* CoordDistance on the planar metres
CoordDistance(lat1, lon1, lat2, lon2) == sqrt(DistLatLonSqr(lat1, lon1, lat2, lon2))

\* sine and cosine times 1000 of the headings runways and taxiways of the
\* inputs have: the compass headings, and 5 degrees either side of north and
\* south
Sin1000(angle) ==
    CASE angle = 0 -> 0 [] angle = 45 -> 707 [] angle = 90 -> 1000
      [] angle = 135 -> 707 [] angle = 180 -> 0 [] angle = 225 -> -707
      [] angle = 270 -> -1000
      [] angle = 5 -> 87 [] angle = 175 -> 87 [] angle = 185 -> -87
      [] angle = 355 -> -87 [] OTHER -> -707
Cos1000(angle) ==
    CASE angle = 0 -> 1000 [] angle = 45 -> 707 [] angle = 90 -> 0
      [] angle = 135 -> -707 [] angle = 180 -> -1000 [] angle = 225 -> -707
      [] angle = 270 -> 0
      [] angle = 5 -> 996 [] angle = 175 -> -996 [] angle = 185 -> -996
      [] angle = 355 -> 996 [] OTHER -> 707

\* integer division rounding toward zero, as a double-to-metre rounding
DivT(a, b) == IF a >= 0 THEN a \div b ELSE -((-a) \div b)

\* positionTy += vectorTy: move the position by dist along the heading angle
CoordPlusVector(pos, angle, dist) ==
    positionTy(pos.lat + DivT(dist * Cos1000(angle), 1000),
               pos.lon + DivT(dist * Sin1000(angle), 1000))

\* touch-down point: ART_RWY_TD_POINT_F = 10% of the runway length, in percent
ART_RWY_TD_POINT_PCT == 10

\* Apt::AddRwyEnds, the two rwy ends and the edge between them: the touch-down
\* points re1 and re2, the runway's angle and the remaining length dist
EmplaceRwyEnds(apt, re1, id1, re2, id2, angle, dist) ==
    [apt EXCEPT
        !.bounds = enlarge_pos(enlarge_pos(apt.bounds, re1.lat, re1.lon),
                               re2.lat, re2.lon),
        !.vecRwyEndPts = apt.vecRwyEndPts \o <<RwyEndPt(id1, re1.lat, re1.lon),
                                               RwyEndPt(id2, re2.lat, re2.lon)>>,
        !.vecTaxiEdges =
            Append(apt.vecTaxiEdges,
                   TaxiEdge("RUN_WAY", Len(apt.vecRwyEndPts), Len(apt.vecRwyEndPts) + 1,
                            angle, dist))]

\* faulty variant of AddRwyEnds: the rwy ends are moved by the displaced
\* thresholds only
AddRwyEndsAtThreshold(apt, lat1, lon1, displaced1, id1, lat2, lon2, displaced2, id2) ==
    The({EmplaceRwyEnds(apt,
            CoordPlusVector(positionTy(lat1, lon1), vecRwy.angle, displaced1),
            id1,
            CoordPlusVector(positionTy(lat2, lon2), vecRwy.angle, -displaced2),
            id2,
            vecRwy.angle,
            DivT(vecRwy.dist * (100 - 2 * ART_RWY_TD_POINT_PCT), 100)) :
         vecRwy \in {[angle |-> CoordAngle(lat1, lon1, lat2, lon2),
                      dist |-> CoordDistance(lat1, lon1, lat2, lon2)
                               - displaced1 - displaced2]}})

\* Apt::AddRwyEnds: vecRwy = re1.between(re2), reduced by the displaced
\* thresholds; the touch-down points lie another 10% of the remaining length in
AddRwyEnds(apt, lat1, lon1, displaced1, id1, lat2, lon2, displaced2, id2) ==
    The({EmplaceRwyEnds(apt,
            CoordPlusVector(positionTy(lat1, lon1), vecRwy.angle,
                displaced1 + DivT(vecRwy.dist * ART_RWY_TD_POINT_PCT, 100)),
            id1,
            CoordPlusVector(positionTy(lat2, lon2), vecRwy.angle,
                -(displaced2 + DivT(vecRwy.dist * ART_RWY_TD_POINT_PCT, 100))),
            id2,
            vecRwy.angle,
            DivT(vecRwy.dist * (100 - 2 * ART_RWY_TD_POINT_PCT), 100)) :
         vecRwy \in {[angle |-> CoordAngle(lat1, lon1, lat2, lon2),
                      dist |-> CoordDistance(lat1, lon1, lat2, lon2)
                               - displaced1 - displaced2]}})

\* Apt::LocalCoordsUpdate
AptLocalCoordsUpdate(apt, bForce) ==
    [apt EXCEPT
        !.vecTaxiNodes = [i \in DOMAIN apt.vecTaxiNodes |->
                             NodeLocalCoordsUpdate(apt.vecTaxiNodes[i], bForce)],
        !.vecRwyEndPts = [i \in DOMAIN apt.vecRwyEndPts |->
                             NodeLocalCoordsUpdate(apt.vecRwyEndPts[i], bForce)]]

\* YProbe_at_m: the terrain altitude, NaN in case of failure; ok is the set of
\* positions at which the probe succeeds in this call
YProbe_at_m(pos, ok) == IF pos \in ok THEN TerrainAlt_m ELSE NAN

\* faulty variant of ComputeAlt: the altitude is computed anew each time
ComputeAltAnew(re, ok) ==
    [re EXCEPT !.alt_m = YProbe_at_m(positionTy(re.lat, re.lon), ok)]

\* RwyEndPt::ComputeAlt: compute altitude if not yet known
ComputeAlt(re, ok) ==
    IF isnan(re.alt_m)
    THEN [re EXCEPT !.alt_m = YProbe_at_m(positionTy(re.lat, re.lon), ok)]
    ELSE re

\* Apt::UpdateAltitudes
UpdateAltitudes(apt, ok) ==
    [apt EXCEPT
        !.alt_m = YProbe_at_m(center(apt.bounds), ok),
        !.vecRwyEndPts = [i \in DOMAIN apt.vecRwyEndPts |->
                             ComputeAlt(apt.vecRwyEndPts[i], ok)]]

\* the positions Apt::UpdateAltitudes probes
ProbedPositions(apt) ==
    {center(apt.bounds)}
    \cup {positionTy(apt.vecRwyEndPts[i].lat, apt.vecRwyEndPts[i].lon) :
            i \in {j \in DOMAIN apt.vecRwyEndPts : isnan(apt.vecRwyEndPts[j].alt_m)}}

\* TaxiEdge::CompHeadLess holds along the whole vector
IsSortedByHeading(edges) ==
    \A i \in 1..(Len(edges) - 1) : edges[i].angle <= edges[i + 1].angle

\* faulty variant of SortByHeading: the edges stay in the order of the file
KeepOrder(edges) == {edges}

\* std::sort(vecTaxiEdges, CompHeadLess): every ordering of the edges that is
\* sorted by heading (std::sort is not stable: edges of equal heading may end
\* in any order)
SortByHeading(edges) ==
    LET n == Len(edges)
        perms == {p \in [1..n -> 1..n] : \A i, j \in 1..n : i # j => p[i] # p[j]}
    IN  {s \in {[i \in 1..n |-> edges[p[i]]] : p \in perms} : IsSortedByHeading(s)}

\* faulty variant of AddAptPrepare: the edges are not sorted
AddAptUnsorted(apt) ==
    {[apt EXCEPT !.bounds = enlarge_m(apt.bounds, FdSnapTaxiDist_m)]}

\* faulty variant of AddAptPrepare: the bounding box is not enlarged
AddAptNoMargin(apt) ==
    {[apt EXCEPT !.vecTaxiEdges = e] : e \in SortByHeading(apt.vecTaxiEdges)}

\* Apt::AddApt before the lock: the bounding box is enlarged by the snapping
\* distance and the edges are sorted; the set of possible results
AddAptPrepare(apt) ==
    {[apt EXCEPT !.bounds = enlarge_m(apt.bounds, FdSnapTaxiDist_m),
                 !.vecTaxiEdges = e] : e \in SortByHeading(apt.vecTaxiEdges)}

\* faulty variant of MovedFrom: the airport is copied, not moved
CopiedFrom(apt) == apt

\* the object left behind by std::move(apt): id and vectors are empty
MovedFrom(apt) ==
    [apt EXCEPT !.id = "", !.vecTaxiNodes = <<>>, !.vecRwyEndPts = <<>>,
                !.vecTaxiEdges = <<>>]

\* ------------------------------------------------------- searching edges
\* maximum difference between a heading and an edge's angle to match, degrees
ART_EDGE_ANGLE_TOLERANCE == 30
ART_RWY_MAX_HEAD_DIFF == 10

\* HeadingNormalize: normalize a heading to [0..360)
HeadingNormalize(h) == h % 360

\* HeadingDiff: -180 <= difference <= 180, the turn from h1 to h2
HeadingDiff(h1, h2) ==
    LET d == (h2 - h1) % 360
    IN  IF d > 180 THEN d - 360 ELSE d

\* TaxiEdge::GetA / GetB: rwy endpoints are stored at a different place than
\* taxiway nodes
GetA(e, apt) ==
    IF e.type = "RUN_WAY" THEN apt.vecRwyEndPts[e.a + 1] ELSE apt.vecTaxiNodes[e.a + 1]
GetB(e, apt) ==
    IF e.type = "RUN_WAY" THEN apt.vecRwyEndPts[e.b + 1] ELSE apt.vecTaxiNodes[e.b + 1]

\* std::lower_bound(vecTaxiEdges, TaxiEdge(angle), CompHeadLess): 1-based
\* position of the first edge whose angle is not less, Len + 1 if none
LowerBound(edges, angle) ==
    LET hit == {i \in 1..Len(edges) : ~(edges[i].angle < angle)}
    IN  IF hit = {} THEN Len(edges) + 1
        ELSE CHOOSE i \in hit : \A j \in hit : i <= j

\* the loop over one heading range: from the lower bound while angle <= second
EdgesInRange(edges, first, second) ==
    LET lb == LowerBound(edges, first)
        stop == {i \in lb..Len(edges) : ~(edges[i].angle <= second)}
        end == IF stop = {} THEN Len(edges) + 1
               ELSE CHOOSE i \in stop : \A j \in stop : i <= j
    IN  SubSeq(edges, lb, end - 1)

\* faulty variant of FindEdgesForHeading: the search range is not wrapped at 0
\* and 180 degrees
FindEdgesNoWrap(apt, headSearchIn, angleTolerance, restrictType) ==
    LET headSearch == IF headSearchIn >= 180 THEN headSearchIn - 180 ELSE headSearchIn
    IN  SelectSeq(EdgesInRange(apt.vecTaxiEdges, headSearch - angleTolerance,
                               headSearch + angleTolerance),
                  LAMBDA e : restrictType = "UNKNOWN_WAY" \/ restrictType = e.type)

\* Apt::FindEdgesForHeading: the list lst of matching edges;
\* _restrictType "UNKNOWN_WAY" does not restrict the results
FindEdgesForHeading(apt, headSearchIn, angleTolerance, restrictType) ==
    LET headSearch == IF headSearchIn >= 180 THEN headSearchIn - 180 ELSE headSearchIn
        headBegin == headSearch - angleTolerance
        headEnd == headSearch + angleTolerance
        vecRanges ==
            IF 0 <= headBegin /\ headEnd < 180
            THEN <<<<headBegin, headEnd>>>>
            ELSE IF headBegin < 0
            THEN <<<<0, headEnd>>, <<headBegin + 180, 180>>>>
            ELSE <<<<0, headEnd - 180>>, <<headBegin, 180>>>>
        found == IF Len(vecRanges) = 1
                 THEN EdgesInRange(apt.vecTaxiEdges, vecRanges[1][1], vecRanges[1][2])
                 ELSE EdgesInRange(apt.vecTaxiEdges, vecRanges[1][1], vecRanges[1][2])
                      \o EdgesInRange(apt.vecTaxiEdges, vecRanges[2][1], vecRanges[2][2])
    IN  SelectSeq(found, LAMBDA e : restrictType = "UNKNOWN_WAY" \/ restrictType = e.type)

\* DistPointToLineSqr: square distance of the point to the line, square length
\* of the line, square lengths of the legs from either end to the base
DistPointToLineSqr(pt_x, pt_y, ln_x1, ln_y1, ln_x2, ln_y2) ==
    LET len2 == sqr(ln_x2 - ln_x1) + sqr(ln_y2 - ln_y1)
        dot == (pt_x - ln_x1) * (ln_x2 - ln_x1) + (pt_y - ln_y1) * (ln_y2 - ln_y1)
        bx == IF len2 = 0 THEN ln_x1 ELSE ln_x1 + DivT(dot * (ln_x2 - ln_x1), len2)
        by == IF len2 = 0 THEN ln_y1 ELSE ln_y1 + DivT(dot * (ln_y2 - ln_y1), len2)
    IN  [dist2 |-> sqr(pt_x - bx) + sqr(pt_y - by),
         len2 |-> len2,
         leg1_len2 |-> sqr(bx - ln_x1) + sqr(by - ln_y1),
         leg2_len2 |-> sqr(bx - ln_x2) + sqr(by - ln_y2)]

\* distToLineTy::DistSqrOfBaseBeyondLine
DistSqrOfBaseBeyondLine(d) == Max(d.leg1_len2, d.leg2_len2) - d.len2

\* DistResultToBaseLoc: the base point on the line, from the leg lengths
DistResultToBaseLoc(ln_x1, ln_y1, ln_x2, ln_y2, res) ==
    LET len == sqrt(res.len2)
        leg1 == sqrt(res.leg1_len2)
        sgn == IF res.leg2_len2 > res.len2 /\ res.leg2_len2 > res.leg1_len2
               THEN -1 ELSE 1
    IN  IF len = 0
        THEN [x |-> ln_x1, y |-> ln_y1]
        ELSE [x |-> ln_x1 + sgn * DivT(leg1 * (ln_x2 - ln_x1), len),
              y |-> ln_y1 + sgn * DivT(leg1 * (ln_y2 - ln_y1), len)]

\* XPLMLocalToWorld, the inverse of WorldToLocalX / WorldToLocalZ
LocalToWorld(x, z) == positionTy(-z, x)

\* Apt::FindClosestEdge, the loop over the matching edges: best is the best
\* match so far (edge, from, to, dist), i the 1-based position in lstEdges
RECURSIVE ClosestLoop(_, _, _, _, _, _, _)
ClosestLoop(apt, lstEdges, i, pt_x, pt_z, bHeadInverted, best) ==
    IF i > Len(lstEdges)
    THEN best
    ELSE LET e == lstEdges[i]
             from == IF bHeadInverted THEN GetB(e, apt) ELSE GetA(e, apt)
             to == IF bHeadInverted THEN GetA(e, apt) ELSE GetB(e, apt)
             dist == DistPointToLineSqr(pt_x, pt_z, from.x, from.z, to.x, to.z)
             skip == \/ ~HasLocalCoords(from) \/ ~HasLocalCoords(to)
                     \/ dist.dist2 >= best.dist.dist2
                     \/ DistSqrOfBaseBeyondLine(dist) > best.maxBeyond2
         IN  ClosestLoop(apt, lstEdges, i + 1, pt_x, pt_z, bHeadInverted,
                 IF skip THEN best
                 ELSE [best EXCEPT !.found = TRUE, !.edge = e, !.from = from,
                                   !.to = to, !.dist = dist])

\* Apt::FindClosestEdge before the loop: nothing found, bestDist.dist2 and
\* maxDistBeyondLineEnd2 are the square of _maxDist_m
NoBestEdge(maxDist_m) ==
    [found |-> FALSE, edge |-> TaxiEdge("UNKNOWN_WAY", 0, 0, 0, NAN),
     from |-> TaxiNode(NAN, NAN), to |-> TaxiNode(NAN, NAN),
     dist |-> [dist2 |-> sqr(maxDist_m), len2 |-> NAN,
               leg1_len2 |-> NAN, leg2_len2 |-> NAN],
     maxBeyond2 |-> sqr(maxDist_m)]

\* Apt::FindClosestEdge after the loop: compute the base point on the line and
\* convert it to world coordinates
BasePtOf(best) ==
    LET base == DistResultToBaseLoc(best.from.x, best.from.z, best.to.x, best.to.z,
                                    best.dist)
    IN  LocalToWorld(base.x, base.y)

\* Apt::FindClosestEdge after the loop: [found, edge, basePt]; only lat and lon
\* of basePt are modified
ClosestResult(pos, best) ==
    IF ~best.found
    THEN [found |-> FALSE, edge |-> best.edge, basePt |-> pos]
    ELSE [found |-> TRUE, edge |-> best.edge,
          basePt |-> [pos EXCEPT !.lat = BasePtOf(best).lat,
                                 !.lon = BasePtOf(best).lon]]

\* Apt::FindClosestEdge
FindClosestEdge(apt, pos, maxDist_m, angleTolerance) ==
    ClosestResult(pos,
        ClosestLoop(apt,
                    FindEdgesForHeading(apt, HeadingNormalize(pos.heading),
                                        angleTolerance, "UNKNOWN_WAY"),
                    1,
                    WorldToLocalX(pos.lat, pos.lon),
                    WorldToLocalZ(pos.lat, pos.lon),
                    HeadingNormalize(pos.heading) >= 180,
                    NoBestEdge(maxDist_m)))

\* faulty variant of SnapToTaxiwayWithin: the position is turned into the
\* direction of the edge as well
SnapAndTurn(apt, pos, snapTaxiDist_m) ==
    LET r == FindClosestEdge(apt, pos, snapTaxiDist_m, ART_EDGE_ANGLE_TOLERANCE)
    IN  IF r.found
        THEN [ret |-> TRUE,
              pos |-> [r.basePt EXCEPT !.flightPhase = "FPH_TAXI",
                                       !.heading = r.edge.angle]]
        ELSE [ret |-> FALSE, pos |-> r.basePt]

\* Apt::SnapToTaxiway with dataRefs.GetFdSnapTaxiDist_m() = snapTaxiDist_m:
\* [ret, pos]
SnapToTaxiwayWithin(apt, pos, snapTaxiDist_m) ==
    LET r == FindClosestEdge(apt, pos, snapTaxiDist_m, ART_EDGE_ANGLE_TOLERANCE)
    IN  IF r.found
        THEN [ret |-> TRUE,
              pos |-> IF r.edge.type # "RUN_WAY"
                      THEN [r.basePt EXCEPT !.flightPhase = "FPH_TAXI"]
                      ELSE r.basePt]
        ELSE [ret |-> FALSE, pos |-> r.basePt]

\* Apt::SnapToTaxiway: [ret, pos]
SnapToTaxiway(apt, pos) == SnapToTaxiwayWithin(apt, pos, FdSnapTaxiDist_m)

\* ------------------------------------------------------------ input lines
\* One line of an apt.dat file, as far as the parser looks at it:
\*   code  first token: "" (empty line), "1", "100", "120", "111".."116",
\*         "num" (any other number), "text" (not a number)
\*   long  the line is longer than the minimum length its record needs
\*   nf    number of whitespace-separated fields
\*   num   the latitude token, which the parser converts with std::stod, is a
\*         number (the other tokens it converts always are)
Line(code, long, nf, num, id, lat, lon, displaced, lat2, lon2, displaced2, lnTypeCode) ==
    [code |-> code, long |-> long, nf |-> nf, num |-> num, id |-> id,
     lat |-> lat, lon |-> lon, displaced |-> displaced,
     lat2 |-> lat2, lon2 |-> lon2, displaced2 |-> displaced2,
     lnTypeCode |-> lnTypeCode]

EmptyLine == Line("", FALSE, 0, TRUE, "", 0, 0, 0, 0, 0, 0, 0)
\* "1 <elev> 0 0 <id> <name>"
Hdr(id) == Line("1", TRUE, 6, TRUE, id, 0, 0, 0, 0, 0, 0, 0)
\* "100 ..." with 26 fields: both runway ends with their displaced thresholds
Rwy(lat, lon, displaced, lat2, lon2, displaced2) ==
    Line("100", TRUE, 26, TRUE, "", lat, lon, displaced, lat2, lon2, displaced2, 0)
\* a runway line with a token that is not a number where a number is expected
RwyBadNum == [Rwy(0, 0, 0, 0, 20, 0) EXCEPT !.num = FALSE]
\* "120 <name>": start of a taxi line section
Marker == Line("120", TRUE, 2, TRUE, "", 0, 0, 0, 0, 0, 0, 0)
\* "111 <lat> <lon> <line type code>" and its siblings 112..116
Pt(code, lat, lon, lnTypeCode) ==
    Line(code, TRUE, IF code \in {"112", "114"} THEN 6 ELSE 4, TRUE, "",
         lat, lon, 0, 0, 0, 0, lnTypeCode)
\* any other record
Other == Line("num", TRUE, 3, TRUE, "", 0, 0, 0, 0, 0, 0, 0)

IsEmptyLine(ln) == ln.code = ""
\* ln.size() > 10 && ln[0] == '1' && ln[1] is blank
IsAptHeader(ln) == ln.code = "1" /\ ln.long
\* ln.size() > 20 && ln starts with "100 "
IsRwyLine(ln) == ln.code = "100" /\ ln.long
\* ln == "120" or ln starts with "120 "
IsTaxiMarker(ln) == ln.code = "120"
IsTaxiPointCode(code) == code \in {"111", "112", "113", "114", "115", "116"}

\* latitude and longitude in acceptable range (degrees, here in metres)
CoordsInRange(lat, lon) ==
    /\ -90 * LAT_DEG_IN_MTR <= lat /\ lat <= 90 * LAT_DEG_IN_MTR
    /\ -180 * LAT_DEG_IN_MTR <= lon /\ lon < 180 * LAT_DEG_IN_MTR

\* ------------------------------------------- ReadOneTaxiLine: node thinning
RemoveAt(s, i) == [j \in 1..(Len(s) - 1) |-> IF j < i THEN s[j] ELSE s[j + 1]]

\* faulty variant of AddNodeAndEdge: AddTaxiEdge(idx, idx, dist)
AddNodeAndEdgeSelf(apt, b, dist) ==
    The({AddTaxiEdge(apt1, Len(apt1.vecTaxiNodes) - 1, Len(apt1.vecTaxiNodes) - 1, dist) :
         apt1 \in {AddTaxiNode(apt, b.lat, b.lon)}})

\* AddTaxiNode(b) followed by AddTaxiEdge(idx-1, idx, dist)
AddNodeAndEdge(apt, b, dist) ==
    The({AddTaxiEdge(apt1, Len(apt1.vecTaxiNodes) - 2, Len(apt1.vecTaxiNodes) - 1, dist) :
         apt1 \in {AddTaxiNode(apt, b.lat, b.lon)}})

\* the loop over all nodes but the last three; i is the 0-based position of iter
RECURSIVE ThinLoop(_, _, _)
ThinLoop(apt, nodes, i) ==
    IF i + 3 = Len(nodes)
    THEN [apt |-> apt, nodes |-> nodes]
    ELSE LET a == nodes[i + 1]
             b == nodes[i + 2]
             distEst == DistLatLonSqr(a.lat, a.lon, b.lat, b.lon)
         IN  IF distEst < APT_MIN_TAXI_SEGM_LEN_M2
             THEN ThinLoop(apt, RemoveAt(nodes, i + 2), i)
             ELSE ThinLoop(AddNodeAndEdge(apt, b, sqrt(distEst)), nodes, i + 1)

\* faulty variant of ThinTail: with the middle node b removed, the final edge
\* gets the distance from b to c only
ThinTailShort(apt, nodes) ==
    LET n == Len(nodes)
        a == nodes[n - 2]
        b == nodes[n - 1]
        c == nodes[n]
        AB == DistLatLonSqr(a.lat, a.lon, b.lat, b.lon)
        BC == DistLatLonSqr(b.lat, b.lon, c.lat, c.lon)
    IN  IF n >= 3
        THEN IF AB < APT_MIN_TAXI_SEGM_LEN_M2 \/ BC < APT_MIN_TAXI_SEGM_LEN_M2
             THEN AddNodeAndEdge(apt, c, sqrt(BC))
             ELSE AddNodeAndEdge(AddNodeAndEdge(apt, b, sqrt(AB)), c, sqrt(BC))
        ELSE AddNodeAndEdge(apt, c,
                 sqrt(DistLatLonSqr(nodes[n - 1].lat, nodes[n - 1].lon, c.lat, c.lon)))

\* faulty variant of ThinTail: the middle node b is kept however close it is
\* to a or c
ThinTailKeepB(apt, nodes) ==
    LET n == Len(nodes)
        a == nodes[n - 2]
        b == nodes[n - 1]
        c == nodes[n]
        AB == DistLatLonSqr(a.lat, a.lon, b.lat, b.lon)
        BC == DistLatLonSqr(b.lat, b.lon, c.lat, c.lon)
    IN  IF n >= 3
        THEN AddNodeAndEdge(AddNodeAndEdge(apt, b, sqrt(AB)), c, sqrt(BC))
        ELSE AddNodeAndEdge(apt, c,
                 sqrt(DistLatLonSqr(nodes[n - 1].lat, nodes[n - 1].lon, c.lat, c.lon)))

\* the last three nodes a <-> b <-> c and the final edge
ThinTail(apt, nodes) ==
    LET n == Len(nodes)
        a == nodes[n - 2]
        b == nodes[n - 1]
        c == nodes[n]
        AB == DistLatLonSqr(a.lat, a.lon, b.lat, b.lon)
        BC == DistLatLonSqr(b.lat, b.lon, c.lat, c.lon)
    IN  IF n >= 3
        THEN IF AB < APT_MIN_TAXI_SEGM_LEN_M2 \/ BC < APT_MIN_TAXI_SEGM_LEN_M2
             THEN AddNodeAndEdge(apt, c, sqrt(AB) + sqrt(BC))
             ELSE AddNodeAndEdge(AddNodeAndEdge(apt, b, sqrt(AB)), c, sqrt(BC))
        ELSE AddNodeAndEdge(apt, c,
                 sqrt(DistLatLonSqr(nodes[n - 1].lat, nodes[n - 1].lon, c.lat, c.lon)))

\* ReadOneTaxiLine after the section is read: process the resulting nodes
ProcessTaxiNodes(apt, vecNodes) ==
    IF Len(vecNodes) >= 2
    THEN The({ThinTail(r.apt, r.nodes) :
              r \in {IF Len(vecNodes) >= 3
                     THEN ThinLoop(AddTaxiNode(apt, vecNodes[1].lat, vecNodes[1].lon),
                                   vecNodes, 0)
                     ELSE [apt |-> AddTaxiNode(apt, vecNodes[1].lat, vecNodes[1].lon),
                           nodes |-> vecNodes]}})
    ELSE apt

\* Taxi Centerline?
IsCenterline(lnTypeCode) == lnTypeCode \in {1, 7, 51, 57}

\* the line type code ReadOneTaxiLine finds in a 111..116 line
LnTypeCodeOf(ln) ==
    IF ln.code \in {"111", "113"} /\ ln.nf >= 4 THEN ln.lnTypeCode
    ELSE IF ln.code \in {"112", "114"} /\ ln.nf >= 6 THEN ln.lnTypeCode
    ELSE 1

\* ------------------------------------------------------------------ inputs
\* A source is one apt.dat file: can it be opened, and its lines.
Source(lines) == [open |-> TRUE, lines |-> lines]
NoFile == [open |-> FALSE, lines |-> <<>>]

\* airport A: runway (0,0)-(0,20) heading east, one taxi line heading north
LinesA ==
    <<Hdr("A"), Rwy(0, 0, 0, 0, 20, 0),
      Marker, Pt("111", 0, 10, 1), Pt("115", 20, 10, 0)>>
\* airport B: runway (0,150)-(0,170)
LinesB == <<Hdr("B"), Rwy(0, 150, 0, 0, 170, 0)>>

\* The lists of sources a scan may find, in scenery order; the last source of
\* a list is the global apt.dat file.
SourceLists ==
    << <<Source(LinesA \o LinesB)>>,
       <<NoFile, NoFile>>,
       <<Source(<<Hdr("B"), RwyBadNum>> \o LinesA), Source(LinesB)>>,
       <<Source(LinesB), Source(LinesA \o <<Other>> \o LinesB)>> >>

Inputs == 1..Min(MaxInput, Len(SourceLists))

\* Further files for the parser on its own.
\* the meridian of 180 degrees, in metres
Lon180 == 180 * LAT_DEG_IN_MTR
\* "1 <elev> 0 0": an airport header that ends before the id
HdrShort == [Hdr("") EXCEPT !.nf = 4]
\* another definition under the id A: runway (0,40)-(0,60)
LinesA2 == <<Hdr("A"), Rwy(0, 40, 0, 0, 60, 0)>>
\* airport C: the first runway far away, the second runway and the taxi line
\* at the place of airport A
LinesC ==
    <<Hdr("C"), Rwy(0, 500, 0, 0, 520, 0), Rwy(0, 0, 0, 0, 20, 0),
      Marker, Pt("111", 0, 10, 1), Pt("115", 20, 10, 0)>>
\* airport D: the first runway nearby, the second runway far away
LinesD == <<Hdr("D"), Rwy(0, 40, 0, 0, 60, 0), Rwy(0, 500, 0, 0, 520, 0)>>
\* airport E at the meridian of 180 degrees: a runway whose first end is at
\* longitude 180, then the same runway given from its other end
LinesE ==
    <<Hdr("E"), Rwy(0, Lon180, 0, 0, Lon180 - 20, 0),
      Rwy(0, Lon180 - 20, 0, 0, Lon180, 0)>>
\* airport F: a taxi line ended by the next marker, a taxi line ended by a
\* point that is not on a centerline, a taxi line ended by a short line
LinesF ==
    <<Hdr("F"), Rwy(0, 0, 0, 0, 20, 0),
      Marker, Pt("111", 0, 10, 1), Pt("111", 20, 10, 1),
      Marker, Pt("111", 0, 15, 1), Pt("113", 20, 15, 2),
      Marker, Pt("111", 0, 5, 1), EmptyLine, Pt("112", 20, 5, 1), Marker>>

ParseSourceLists ==
    << <<Source(LinesA \o LinesA2 \o LinesD)>>,
       <<Source(LinesA2), Source(LinesA)>>,
       <<Source(LinesC \o LinesD)>>,
       <<Source(LinesE)>>,
       <<Source(LinesF \o <<HdrShort, Rwy(0, 40, 0, 0, 60, 0), Hdr("G")>> \o LinesA2)>>,
       <<Source(LinesA \o <<RwyBadNum>>)>> >>

AllSourceLists == SourceLists \o ParseSourceLists

CameraPositions == {positionTy(0, i * CamStep) : i \in 0..MaxCam} \cup {NanPos}

\* ------------------------------------------------------------------- state
VARIABLES
    camera,         \* DataRefs::GetViewPos(): the current reference position
    fgpc,           \* where the foreground (X-Plane main thread) is
    fgTick,         \* the running backfill was started by LTAptRefresh
    bForce,         \* parameter of the running LTAptLocalCoordsUpdate
    lastCameraPos,  \* last position for which airports have been read
    bAptsAdded,     \* new airports added, LTAptUpdateRwyAltitudes necessary?
    futRefreshing,  \* "invalid", "running", "ready" or "ready_exc"
    nScans,         \* number of AsyncReadApt threads alive
    bStopThread,    \* this flag stops the file reading thread
    mtxGMapApt,     \* holder of the lock: "free", "fg" or "bg"
    gmapApt,        \* global map of airports, key is the id
    YProbe,         \* Apt::YProbe exists
    scan,           \* frame of the AsyncReadApt thread (pc and locals)
    qry,            \* frame of the running query: function, argument, results
    purgeBefore     \* history: gmapApt when PurgeApt took the lock

vars == <<camera, fgpc, fgTick, bForce, lastCameraPos, bAptsAdded, futRefreshing,
          nScans, bStopThread, mtxGMapApt, gmapApt, YProbe, scan, qry, purgeBefore>>

fgLocals == <<fgpc, fgTick, bForce, qry>>
orchVars == <<lastCameraPos, bAptsAdded, futRefreshing, nScans, bStopThread>>

EmptyMap == [k \in {} |-> Apt("")]

\* the order std::map iterates its keys in
AptIds == <<"A", "B", "C", "D", "E", "F", "G", "W">>
SortedKeys(map) == SelectSeq(AptIds, LAMBDA k : k \in DOMAIN map)

\* faulty variant of Erase: the entry stays
KeepEntry(map, key) == map

\* gmapApt.emplace(key, apt): does not replace an existing entry
Emplace(map, key, apt) ==
    [k \in DOMAIN map \cup {key} |-> IF k \in DOMAIN map THEN map[k] ELSE apt]
\* gmapApt.erase(iter)
Erase(map, key) == [k \in DOMAIN map \ {key} |-> map[k]]

\* LTAptFind: the key of the first airport which contains the position, "" if
\* there is none (nullptr)
LTAptFind(map, pos) ==
    LET hit == SelectSeq(SortedKeys(map), LAMBDA k : contains(map[k].bounds, pos))
    IN  IF hit = <<>> THEN "" ELSE Head(hit)

\* LTAptSnap under the lock: [ret, pos]
SnapUnderLock(map, pos) ==
    LET pApt == LTAptFind(map, pos)
    IN  IF pApt = ""
        THEN [ret |-> FALSE, pos |-> pos]
        ELSE SnapToTaxiway(map[pApt], pos)

\* LTAptFindRwy, all runways looked at in order: <<airport key, edge>>
RECURSIVE RwyCandidates(_, _, _)
RwyCandidates(map, keys, headSearch) ==
    IF keys = <<>>
    THEN <<>>
    ELSE LET lstRwys == FindEdgesForHeading(map[Head(keys)], headSearch,
                                            ART_RWY_MAX_HEAD_DIFF, "RUN_WAY")
         IN  [i \in 1..Len(lstRwys) |-> <<Head(keys), lstRwys[i]>>]
             \o RwyCandidates(map, Tail(keys), headSearch)

\* faulty variant of RwyMatch: the vertical speed is not looked at
RwyMatchAnyVsi(map, ac, bHeadInverted, cand, best) ==
    LET apt == map[cand[1]]
        e == cand[2]
        rwyEP == IF bHeadInverted THEN GetB(e, apt) ELSE GetA(e, apt)
        headingDiff == Abs(HeadingDiff(ac.heading,
                           CoordAngle(ac.lat, ac.lon, rwyEP.lat, rwyEP.lon)))
        dist == CoordDistance(ac.lat, ac.lon, rwyEP.lat, rwyEP.lon)
    IN  IF isnan(rwyEP.alt_m) \/ headingDiff > best.headingDiff
        THEN best
        ELSE [found |-> TRUE, apt |-> cand[1], rwy |-> e, rwyEndPt |-> rwyEP,
              headingDiff |-> headingDiff,
              arrivalTS |-> ac.ts + DivT(dist, ac.speed_m_s)]

\* faulty variant of RwyMatch: a runway of the same heading difference as the
\* best match is skipped
RwyMatchStrict(map, ac, bHeadInverted, cand, best) ==
    LET apt == map[cand[1]]
        e == cand[2]
        rwyEP == IF bHeadInverted THEN GetB(e, apt) ELSE GetA(e, apt)
        headingDiff == Abs(HeadingDiff(ac.heading,
                           CoordAngle(ac.lat, ac.lon, rwyEP.lat, rwyEP.lon)))
        dist == CoordDistance(ac.lat, ac.lon, rwyEP.lat, rwyEP.lon)
        climb == (rwyEP.alt_m - ac.alt_m) * ac.speed_m_s
    IN  IF isnan(rwyEP.alt_m) \/ (best.found /\ headingDiff >= best.headingDiff)
             \/ headingDiff > best.headingDiff
             \/ climb < ac.vsi_min * dist \/ climb > ac.vsi_max * dist
        THEN best
        ELSE [found |-> TRUE, apt |-> cand[1], rwy |-> e, rwyEndPt |-> rwyEP,
              headingDiff |-> headingDiff,
              arrivalTS |-> ac.ts + DivT(dist, ac.speed_m_s)]

\* faulty variant of RwyMatch: the heading difference of a runway is taken
\* as the best one before the vertical speed is looked at
RwyMatchEarlyBest(map, ac, bHeadInverted, cand, best) ==
    LET apt == map[cand[1]]
        e == cand[2]
        rwyEP == IF bHeadInverted THEN GetB(e, apt) ELSE GetA(e, apt)
        headingDiff == Abs(HeadingDiff(ac.heading,
                           CoordAngle(ac.lat, ac.lon, rwyEP.lat, rwyEP.lon)))
        dist == CoordDistance(ac.lat, ac.lon, rwyEP.lat, rwyEP.lon)
        climb == (rwyEP.alt_m - ac.alt_m) * ac.speed_m_s
    IN  IF isnan(rwyEP.alt_m) \/ headingDiff > best.headingDiff
        THEN best
        ELSE IF climb < ac.vsi_min * dist \/ climb > ac.vsi_max * dist
        THEN [best EXCEPT !.headingDiff = headingDiff]
        ELSE [found |-> TRUE, apt |-> cand[1], rwy |-> e, rwyEndPt |-> rwyEP,
              headingDiff |-> headingDiff,
              arrivalTS |-> ac.ts + DivT(dist, ac.speed_m_s)]

\* LTAptFindRwy, one runway: the best match afterwards.  The aircraft _ac is
\* given by its go-to position (lat, lon, alt_m, heading, ts), its speed
\* already cut off at the approach speed, and its allowed VSI range.
\* vsi = (rwyEP.alt_m - from.alt_m) / (dist / speed_m_s) is compared with the
\* range after multiplying both sides by dist / speed_m_s.
RwyMatch(map, ac, bHeadInverted, cand, best) ==
    LET apt == map[cand[1]]
        e == cand[2]
        rwyEP == IF bHeadInverted THEN GetB(e, apt) ELSE GetA(e, apt)
        bearing == CoordAngle(ac.lat, ac.lon, rwyEP.lat, rwyEP.lon)
        headingDiff == Abs(HeadingDiff(ac.heading, bearing))
        dist == CoordDistance(ac.lat, ac.lon, rwyEP.lat, rwyEP.lon)
        climb == (rwyEP.alt_m - ac.alt_m) * ac.speed_m_s
    IN  IF isnan(rwyEP.alt_m)
        THEN best
        ELSE IF headingDiff > best.headingDiff
        THEN best
        ELSE IF climb < ac.vsi_min * dist \/ climb > ac.vsi_max * dist
        THEN best
        ELSE [found |-> TRUE, apt |-> cand[1], rwy |-> e, rwyEndPt |-> rwyEP,
              headingDiff |-> headingDiff,
              arrivalTS |-> ac.ts + DivT(dist, ac.speed_m_s)]

RECURSIVE RwyLoop(_, _, _, _, _)
RwyLoop(map, ac, bHeadInverted, cands, best) ==
    IF cands = <<>>
    THEN best
    ELSE RwyLoop(map, ac, bHeadInverted, Tail(cands),
                 RwyMatch(map, ac, bHeadInverted, Head(cands), best))

\* the result "no position" of LTAptFindRwy
NoRwyPos ==
    [lat |-> NAN, lon |-> NAN, alt_m |-> NAN, ts |-> NAN, heading |-> NAN,
     flightPhase |-> "FPH_UNKNOWN"]

\* LTAptFindRwy under the lock: the best possible runway to auto-land at
FindRwyUnderLock(map, ac) ==
    LET norm == HeadingNormalize(ac.heading)
        bHeadInverted == norm >= 180
        headSearch == IF bHeadInverted THEN norm - 180 ELSE norm
        none == [found |-> FALSE, apt |-> "", rwy |-> TaxiEdge("UNKNOWN_WAY", 0, 0, 0, NAN),
                 rwyEndPt |-> RwyEndPt("", NAN, NAN),
                 headingDiff |-> ART_RWY_MAX_HEAD_DIFF, arrivalTS |-> NAN]
        best == RwyLoop(map, ac, bHeadInverted,
                        RwyCandidates(map, SortedKeys(map), headSearch), none)
    IN  IF ~best.found
        THEN NoRwyPos
        ELSE [lat |-> best.rwyEndPt.lat, lon |-> best.rwyEndPt.lon,
              alt_m |-> best.rwyEndPt.alt_m, ts |-> best.arrivalTS,
              heading |-> best.rwy.angle + (IF bHeadInverted THEN 180 ELSE 0),
              flightPhase |-> "FPH_TOUCH_DOWN"]

\* positions handed to LTAptSnap: 2 m east of A's taxiway heading north,
\* 2 m north of A's runway heading west
SnapPos(lat, lon, heading) ==
    [lat |-> lat, lon |-> lon, heading |-> heading, flightPhase |-> "FPH_UNKNOWN"]
SnapInputs == {SnapPos(3, 12, 0), SnapPos(2, 10, 270)}

\* aircraft handed to LTAptFindRwy: 100 m west of A's runway, flying east
AcInputs ==
    {[lat |-> 0, lon |-> -98, alt_m |-> 13, heading |-> 90, ts |-> 0,
      speed_m_s |-> 10, vsi_min |-> -3, vsi_max |-> 0]}

\* no query is running
NoQuery == [fn |-> "none", arg |-> NanPos, out |-> NanPos, ret |-> FALSE]

IdleScan ==
    [pc |-> "idle", input |-> 0, box |-> NanBox, iter |-> <<>>, srcIdx |-> 0,
     cntFiles |-> 0, lnIdx |-> 0, ln |-> EmptyLine, bProcessGivenLn |-> FALSE,
     apt |-> Apt(""), vecNodes |-> <<>>]

Init ==
    /\ camera \in CameraPositions
    /\ fgpc = "idle"
    /\ fgTick = FALSE
    /\ bForce = FALSE
    /\ lastCameraPos = NanPos
    /\ bAptsAdded = FALSE
    /\ futRefreshing = "invalid"
    /\ nScans = 0
    /\ bStopThread = FALSE
    /\ mtxGMapApt = "free"
    /\ gmapApt = EmptyMap
    /\ YProbe = FALSE
    /\ scan = IdleScan
    /\ qry = NoQuery
    /\ purgeBefore = EmptyMap

\* ------------------------------------------------- foreground: orchestration
\* the simulator moves the camera between two calls
SetViewPos ==
    /\ fgpc = "idle"
    /\ \E p \in CameraPositions : p # camera /\ camera' = p
    /\ UNCHANGED <<fgLocals, orchVars, mtxGMapApt, gmapApt, YProbe, scan, purgeBefore>>

\* faulty variant of ScanInFlight: the safety check is missing
NeverInFlight == FALSE

\* futRefreshing.valid() && futRefreshing.wait_for(0) != ready
ScanInFlight == futRefreshing = "running"

\* faulty variant of NotMovedFar: every position counts as far away
NeverNear == FALSE

\* lastCameraPos.dist(camera) < radius: didn't move far
NotMovedFar == DistLess(lastCameraPos, camera, FdStdDistance_m)

\* std::async(std::launch::async, AsyncReadApt, lastCameraPos, radius):
\* the frame of the new thread, which finds the sources of input i
AsyncReadApt(ctr, radius, i) ==
    [IdleScan EXCEPT !.pc = "purge_wait", !.input = i, !.srcIdx = 1,
                     !.box = BoxAround(ctr, radius)]

\* LTAptRefresh up to its return or up to the call of LTAptUpdateRwyAltitudes
LTAptRefresh ==
    /\ fgpc = "idle"
    /\ IF ScanInFlight \/ ~isNormal(camera)
       THEN UNCHANGED vars
       ELSE IF NotMovedFar
       THEN IF bAptsAdded
            THEN /\ fgpc' = "alt_wait"
                 /\ fgTick' = TRUE
                 /\ UNCHANGED <<qry, camera, bForce, orchVars, mtxGMapApt, gmapApt,
                                YProbe, scan, purgeBefore>>
            ELSE UNCHANGED vars
       ELSE /\ lastCameraPos' = camera
            /\ bStopThread' = FALSE
            /\ futRefreshing' = "running"
            /\ nScans' = nScans + 1
            /\ \E i \in Inputs :
                   scan' = AsyncReadApt(camera, 2 * FdStdDistance_m, i)
            /\ bAptsAdded' = TRUE
            /\ UNCHANGED <<camera, fgLocals, mtxGMapApt, gmapApt, YProbe, purgeBefore>>

\* LTAptUpdateRwyAltitudes called from outside LTAptRefresh
CallUpdateRwyAltitudes ==
    /\ fgpc = "idle"
    /\ fgpc' = "alt_wait"
    /\ fgTick' = FALSE
    /\ UNCHANGED <<qry, camera, bForce, orchVars, mtxGMapApt, gmapApt, YProbe, scan,
                   purgeBefore>>

\* LTAptUpdateRwyAltitudes: std::lock_guard lock(mtxGMapApt)
AltLock ==
    /\ fgpc = "alt_wait"
    /\ mtxGMapApt = "free"
    /\ mtxGMapApt' = "fg"
    /\ fgpc' = "alt_crit"
    /\ UNCHANGED <<qry, camera, fgTick, bForce, orchVars, gmapApt, YProbe, scan, purgeBefore>>

AllProbedPositions(map) == UNION {ProbedPositions(map[k]) : k \in DOMAIN map}

\* the terrain under the airports is loaded (every probe hits) or it is not
ProbeOutcomes(map) == {AllProbedPositions(map), {}}

\* faulty variant of AltBody: LTAptRefresh leaves out LTAptLocalCoordsUpdate
AltBodyOnly ==
    /\ fgpc = "alt_crit"
    /\ \E ok \in ProbeOutcomes(gmapApt) :
           gmapApt' = [k \in DOMAIN gmapApt |-> UpdateAltitudes(gmapApt[k], ok)]
    /\ YProbe' = (YProbe \/ DOMAIN gmapApt # {})
    /\ mtxGMapApt' = "free"
    /\ fgpc' = "idle"
    /\ fgTick' = FALSE
    /\ bAptsAdded' = IF fgTick THEN FALSE ELSE bAptsAdded
    /\ UNCHANGED <<qry, camera, bForce, lastCameraPos, futRefreshing, nScans,
                   bStopThread, scan, purgeBefore>>

\* LTAptUpdateRwyAltitudes: loop all airports, then release the lock; called
\* by LTAptRefresh, LTAptLocalCoordsUpdate(false) follows
AltBody ==
    /\ fgpc = "alt_crit"
    /\ \E ok \in ProbeOutcomes(gmapApt) :
           gmapApt' = [k \in DOMAIN gmapApt |-> UpdateAltitudes(gmapApt[k], ok)]
    /\ YProbe' = (YProbe \/ DOMAIN gmapApt # {})
    /\ mtxGMapApt' = "free"
    /\ IF fgTick
       THEN fgpc' = "lc_wait" /\ bForce' = FALSE
       ELSE fgpc' = "idle" /\ bForce' = bForce
    /\ UNCHANGED <<qry, camera, fgTick, orchVars, scan, purgeBefore>>

\* LTAptLocalCoordsUpdate(bForce) called from outside LTAptRefresh
CallLocalCoordsUpdate ==
    /\ fgpc = "idle"
    /\ fgpc' = "lc_wait"
    /\ fgTick' = FALSE
    /\ bForce' \in BOOLEAN
    /\ UNCHANGED <<qry, camera, orchVars, mtxGMapApt, gmapApt, YProbe, scan, purgeBefore>>

\* LTAptLocalCoordsUpdate: std::lock_guard lock(mtxGMapApt)
LcLock ==
    /\ fgpc = "lc_wait"
    /\ mtxGMapApt = "free"
    /\ mtxGMapApt' = "fg"
    /\ fgpc' = "lc_crit"
    /\ UNCHANGED <<qry, camera, fgTick, bForce, orchVars, gmapApt, YProbe, scan, purgeBefore>>

\* faulty variant of LcBody: LTAptRefresh does not clear bAptsAdded
LcBodyKeepsDirty ==
    /\ fgpc = "lc_crit"
    /\ gmapApt' = [k \in DOMAIN gmapApt |-> AptLocalCoordsUpdate(gmapApt[k], bForce)]
    /\ mtxGMapApt' = "free"
    /\ fgpc' = "idle"
    /\ fgTick' = FALSE
    /\ bForce' = FALSE
    /\ UNCHANGED <<qry, camera, orchVars, YProbe, scan, purgeBefore>>

\* LTAptLocalCoordsUpdate: loop all airports, then release the lock; when
\* called by LTAptRefresh, LTAptRefresh clears bAptsAdded and returns
LcBody ==
    /\ fgpc = "lc_crit"
    /\ gmapApt' = [k \in DOMAIN gmapApt |-> AptLocalCoordsUpdate(gmapApt[k], bForce)]
    /\ mtxGMapApt' = "free"
    /\ fgpc' = "idle"
    /\ fgTick' = FALSE
    /\ bForce' = FALSE
    /\ bAptsAdded' = IF fgTick THEN FALSE ELSE bAptsAdded
    /\ UNCHANGED <<qry, camera, lastCameraPos, futRefreshing, nScans, bStopThread,
                   YProbe, scan, purgeBefore>>

\* LTAptDisable: stop all threads
LTAptDisable ==
    /\ fgpc = "idle"
    /\ bStopThread' = TRUE
    /\ fgpc' = "dis_wait"
    /\ UNCHANGED <<qry, camera, fgTick, bForce, lastCameraPos, bAptsAdded, futRefreshing,
                   nScans, mtxGMapApt, gmapApt, YProbe, scan, purgeBefore>>

\* faulty variant of WaitIsOver: LTAptDisable does not wait
NoWait == TRUE

\* if (futRefreshing.valid()) futRefreshing.wait() is over
WaitIsOver == futRefreshing # "running"

\* faulty variant of DisableReturn: the stop flag is taken back on return
DisableReturnClears ==
    /\ fgpc = "dis_wait"
    /\ WaitIsOver
    /\ YProbe' = FALSE
    /\ fgpc' = "idle"
    /\ bStopThread' = FALSE
    /\ UNCHANGED <<qry, camera, fgTick, bForce, lastCameraPos, bAptsAdded, futRefreshing,
                   nScans, mtxGMapApt, gmapApt, scan, purgeBefore>>

\* LTAptDisable: the wait for the refresh function is over, destroy the Y probe
DisableReturn ==
    /\ fgpc = "dis_wait"
    /\ WaitIsOver
    /\ YProbe' = FALSE
    /\ fgpc' = "idle"
    /\ UNCHANGED <<qry, camera, fgTick, bForce, orchVars, mtxGMapApt, gmapApt, scan,
                   purgeBefore>>

\* ------------------------------------------------------ foreground: queries
\* LTAptSnap called and the lock taken (snapping configured off: return false)
LTAptSnap ==
    /\ fgpc = "idle"
    /\ \E pos \in SnapInputs :
         IF FdSnapTaxiDist_m <= 0
         THEN /\ fgpc' = "qry_ret"
              /\ qry' = [fn |-> "LTAptSnap", arg |-> pos, out |-> pos, ret |-> FALSE]
              /\ UNCHANGED mtxGMapApt
         ELSE /\ mtxGMapApt = "free"
              /\ mtxGMapApt' = "fg"
              /\ fgpc' = "snap_crit"
              /\ qry' = [fn |-> "LTAptSnap", arg |-> pos, out |-> pos, ret |-> FALSE]
    /\ UNCHANGED <<camera, fgTick, bForce, orchVars, gmapApt, YProbe, scan, purgeBefore>>

\* faulty variant of SnapBody: LTAptSnap returns with the lock still held
SnapBodyKeepsLock ==
    /\ fgpc = "snap_crit"
    /\ LET r == SnapUnderLock(gmapApt, qry.arg)
       IN  qry' = [qry EXCEPT !.out = r.pos, !.ret = r.ret]
    /\ fgpc' = "qry_ret"
    /\ UNCHANGED <<camera, fgTick, bForce, orchVars, mtxGMapApt, gmapApt, YProbe, scan,
                   purgeBefore>>

\* LTAptSnap: find the airport, snap, release the lock
SnapBody ==
    /\ fgpc = "snap_crit"
    /\ LET r == SnapUnderLock(gmapApt, qry.arg)
       IN  qry' = [qry EXCEPT !.out = r.pos, !.ret = r.ret]
    /\ mtxGMapApt' = "free"
    /\ fgpc' = "qry_ret"
    /\ UNCHANGED <<camera, fgTick, bForce, orchVars, gmapApt, YProbe, scan, purgeBefore>>

\* LTAptFindRwy called, aircraft-related data prepared and the lock taken
LTAptFindRwy ==
    /\ fgpc = "idle"
    /\ mtxGMapApt = "free"
    /\ mtxGMapApt' = "fg"
    /\ fgpc' = "rwy_crit"
    /\ \E ac \in AcInputs :
           qry' = [fn |-> "LTAptFindRwy", arg |-> ac, out |-> NoRwyPos, ret |-> FALSE]
    /\ UNCHANGED <<camera, fgTick, bForce, orchVars, gmapApt, YProbe, scan, purgeBefore>>

\* LTAptFindRwy: iterate the airports, release the lock
FindRwyBody ==
    /\ fgpc = "rwy_crit"
    /\ LET retPos == FindRwyUnderLock(gmapApt, qry.arg)
       IN  qry' = [qry EXCEPT !.out = retPos, !.ret = (retPos # NoRwyPos)]
    /\ mtxGMapApt' = "free"
    /\ fgpc' = "qry_ret"
    /\ UNCHANGED <<camera, fgTick, bForce, orchVars, gmapApt, YProbe, scan, purgeBefore>>

\* the caller has taken the query's result
QueryReturn ==
    /\ fgpc = "qry_ret"
    /\ fgpc' = "idle"
    /\ qry' = NoQuery
    /\ UNCHANGED <<camera, fgTick, bForce, orchVars, mtxGMapApt, gmapApt, YProbe, scan,
                   purgeBefore>>

\* ------------------------------------------- background: file reading thread
Sources == AllSourceLists[scan.input]
Lines == Sources[scan.srcIdx].lines

\* the stream fIn is good: no read has run into the end of the file yet
fInGood(f) == f.lnIdx <= Len(AllSourceLists[f.input][f.srcIdx].lines)

\* safeGetline: the frame after reading the next line (empty at end of file)
GetLine(f) ==
    LET lines == AllSourceLists[f.input][f.srcIdx].lines
    IN  [f EXCEPT !.lnIdx = f.lnIdx + 1,
                  !.ln = IF f.lnIdx < Len(lines) THEN lines[f.lnIdx + 1] ELSE EmptyLine]

\* PurgeApt: std::lock_guard lock(mtxGMapApt), iter = gmapApt.begin()
BgPurgeLock ==
    /\ scan.pc = "purge_wait"
    /\ mtxGMapApt = "free"
    /\ mtxGMapApt' = "bg"
    /\ scan' = [scan EXCEPT !.pc = "purge", !.iter = SortedKeys(gmapApt)]
    /\ purgeBefore' = gmapApt
    /\ UNCHANGED <<camera, fgLocals, orchVars, gmapApt, YProbe>>

\* faulty variant of PurgeKeeps: airports are kept by their center point
PurgeKeepsCenter(apt, box) == contains(box, center(apt.bounds))

\* PurgeApt: is the airport still in the box?
PurgeKeeps(apt, box) == overlap(apt.bounds, box)

\* PurgeApt: one turn of the loop over all airports
BgPurgeStep ==
    /\ scan.pc = "purge"
    /\ scan.iter # <<>>
    /\ gmapApt' = IF PurgeKeeps(gmapApt[Head(scan.iter)], scan.box)
                  THEN gmapApt
                  ELSE Erase(gmapApt, Head(scan.iter))
    /\ scan' = [scan EXCEPT !.iter = Tail(scan.iter)]
    /\ UNCHANGED <<camera, fgLocals, orchVars, mtxGMapApt, YProbe, purgeBefore>>

\* faulty variant of BgPurgeDone: the lock is kept beyond PurgeApt
BgPurgeDoneLocked ==
    /\ scan.pc = "purge"
    /\ scan.iter = <<>>
    /\ scan' = [scan EXCEPT !.pc = "open"]
    /\ UNCHANGED <<camera, fgLocals, orchVars, mtxGMapApt, gmapApt, YProbe, purgeBefore>>

\* PurgeApt: iter == gmapApt.end(), return and release the lock
BgPurgeDone ==
    /\ scan.pc = "purge"
    /\ scan.iter = <<>>
    /\ mtxGMapApt' = "free"
    /\ scan' = [scan EXCEPT !.pc = "open"]
    /\ UNCHANGED <<camera, fgLocals, orchVars, gmapApt, YProbe, purgeBefore>>

\* AsyncReadApt: the next apt.dat opens, ReadOneAptFile starts
BgOpenFile ==
    /\ scan.pc = "open"
    /\ ~bStopThread
    /\ scan.srcIdx <= Len(Sources)
    /\ Sources[scan.srcIdx].open
    /\ scan' = [scan EXCEPT !.pc = "read", !.lnIdx = 0, !.ln = EmptyLine,
                            !.bProcessGivenLn = FALSE, !.apt = Apt("")]
    /\ UNCHANGED <<camera, fgLocals, orchVars, mtxGMapApt, gmapApt, YProbe, purgeBefore>>

\* AsyncReadApt: the next apt.dat cannot be opened
BgOpenFail ==
    /\ scan.pc = "open"
    /\ ~bStopThread
    /\ scan.srcIdx <= Len(Sources)
    /\ ~Sources[scan.srcIdx].open
    /\ scan' = [scan EXCEPT !.srcIdx = scan.srcIdx + 1]
    /\ UNCHANGED <<camera, fgLocals, orchVars, mtxGMapApt, gmapApt, YProbe, purgeBefore>>

\* AsyncReadApt: all sources processed, or stopped
BgSourcesDone ==
    /\ scan.pc = "open"
    /\ bStopThread \/ scan.srcIdx > Len(Sources)
    /\ scan' = [scan EXCEPT !.pc = "ret"]
    /\ UNCHANGED <<camera, fgLocals, orchVars, mtxGMapApt, gmapApt, YProbe, purgeBefore>>

\* ReadOneAptFile returned: cntFiles++, fIn.close(), next source
FileDone(f) ==
    [f EXCEPT !.pc = "open", !.cntFiles = f.cntFiles + 1, !.srcIdx = f.srcIdx + 1,
              !.lnIdx = 0, !.ln = EmptyLine, !.bProcessGivenLn = FALSE,
              !.apt = Apt(""), !.vecNodes = <<>>]

\* ReadOneAptFile: what one line does to the frame (the set of possible frames)
DispatchLine(f) ==
    LET ln == f.ln IN
    IF IsEmptyLine(ln)
    THEN {f}
    ELSE IF IsAptHeader(ln)
    THEN IF IsValid(f.apt)
         THEN {[f EXCEPT !.apt = a, !.pc = "hdr_add_wait"] : a \in AddAptPrepare(f.apt)}
         ELSE {[f EXCEPT !.apt = Apt(""), !.pc = "hdr_count"]}
    ELSE IF HasId(f.apt) /\ IsRwyLine(ln)
    THEN IF ln.nf # 26
         THEN {f}
         ELSE IF ~ln.num
         THEN {[f EXCEPT !.pc = "throw"]}
         ELSE IF ~CoordsInRange(ln.lat, ln.lon)
         THEN {f}
         ELSE IF HasTaxiWays(f.apt) \/ contains(f.box, positionTy(ln.lat, ln.lon))
         THEN {[f EXCEPT !.apt = AddRwyEnds(f.apt, ln.lat, ln.lon, ln.displaced, "1",
                                            ln.lat2, ln.lon2, ln.displaced2, "2")]}
         ELSE {[f EXCEPT !.apt = Apt("")]}
    ELSE IF HasRwyEndpoints(f.apt) /\ IsTaxiMarker(ln)
    THEN {[f EXCEPT !.pc = "taxi", !.vecNodes = <<>>]}
    ELSE {f}

\* ReadOneAptFile: while (!bStopThread && (bProcessGivenLn || fIn))
ReadGoesOn == ~bStopThread /\ (scan.bProcessGivenLn \/ fInGood(scan))

\* ReadOneAptFile: one turn of the loop
BgReadLine ==
    /\ scan.pc = "read"
    /\ ReadGoesOn
    /\ \E f \in {IF scan.bProcessGivenLn
                  THEN [scan EXCEPT !.bProcessGivenLn = FALSE]
                  ELSE GetLine(scan)} :
           \E g \in DispatchLine(f) : scan' = g
    /\ UNCHANGED <<camera, fgLocals, orchVars, mtxGMapApt, gmapApt, YProbe, purgeBefore>>

\* ReadOneAptFile: the loop is left; if the last airport read is valid add it
BgReadEnd ==
    /\ scan.pc = "read"
    /\ ~ReadGoesOn
    /\ IF IsValid(scan.apt)
       THEN \E a \in AddAptPrepare(scan.apt) :
                scan' = [scan EXCEPT !.apt = a, !.pc = "eof_add_wait"]
       ELSE scan' = FileDone(scan)
    /\ UNCHANGED <<camera, fgLocals, orchVars, mtxGMapApt, gmapApt, YProbe, purgeBefore>>

\* faulty variant of TaxiReturn: the last line read is not handed back
TaxiReturnDropsLine(f) ==
    [f EXCEPT !.apt = ProcessTaxiNodes(f.apt, f.vecNodes), !.vecNodes = <<>>,
              !.pc = "read"]

\* ReadOneTaxiLine: the section is read, process the nodes and return the
\* last line so it can be processed again
TaxiReturn(f) ==
    [f EXCEPT !.apt = ProcessTaxiNodes(f.apt, f.vecNodes), !.vecNodes = <<>>,
              !.bProcessGivenLn = TRUE, !.pc = "read"]

\* ReadOneTaxiLine: what one line read does to the frame
TaxiLine(f) ==
    LET ln == f.ln IN
    IF IsEmptyLine(ln)
    THEN f
    ELSE IF ln.nf < 3
    THEN TaxiReturn(f)
    ELSE IF ln.code = "text"
    THEN [f EXCEPT !.pc = "throw"]
    ELSE IF ~IsTaxiPointCode(ln.code)
    THEN TaxiReturn(f)
    ELSE IF ~IsCenterline(LnTypeCodeOf(ln))
    THEN TaxiReturn(f)
    ELSE IF ~ln.num
    THEN [f EXCEPT !.pc = "throw"]
    ELSE [f EXCEPT !.vecNodes = Append(f.vecNodes, TaxiNode(ln.lat, ln.lon))]

\* ReadOneTaxiLine: one turn of while (fIn)
BgTaxiLine ==
    /\ scan.pc = "taxi"
    /\ IF fInGood(scan)
       THEN \E f \in {GetLine(scan)} : scan' = TaxiLine(f)
       ELSE scan' = TaxiReturn(scan)
    /\ UNCHANGED <<camera, fgLocals, orchVars, mtxGMapApt, gmapApt, YProbe, purgeBefore>>

\* Apt::AddApt: std::lock_guard lock(mtxGMapApt)
BgAddLock ==
    /\ scan.pc \in {"hdr_add_wait", "eof_add_wait"}
    /\ mtxGMapApt = "free"
    /\ mtxGMapApt' = "bg"
    /\ scan' = [scan EXCEPT !.pc = IF scan.pc = "hdr_add_wait"
                                   THEN "hdr_add_crit" ELSE "eof_add_crit"]
    /\ UNCHANGED <<camera, fgLocals, orchVars, gmapApt, YProbe, purgeBefore>>

\* Apt::AddApt: gmapApt.emplace(key, std::move(apt)), release the lock, return
BgAddEmplace ==
    /\ scan.pc \in {"hdr_add_crit", "eof_add_crit"}
    /\ gmapApt' = Emplace(gmapApt, scan.apt.id, scan.apt)
    /\ mtxGMapApt' = "free"
    /\ scan' = IF scan.pc = "hdr_add_crit"
               THEN [scan EXCEPT !.apt = MovedFrom(scan.apt), !.pc = "hdr_count"]
               ELSE FileDone(scan)
    /\ UNCHANGED <<camera, fgLocals, orchVars, YProbe, purgeBefore>>

\* faulty variant of BgHdrCount: the map is not asked for the id
BgHdrCountAnyId ==
    /\ scan.pc = "hdr_count"
    /\ scan' = [scan EXCEPT
                   !.pc = "read",
                   !.apt = IF scan.ln.nf >= 5 THEN Apt(scan.ln.id) ELSE scan.apt]
    /\ UNCHANGED <<camera, fgLocals, orchVars, mtxGMapApt, gmapApt, YProbe, purgeBefore>>

\* ReadOneAptFile, airport header: the line contains an airport id, and the
\* airport is not yet defined in the map
BgHdrCount ==
    /\ scan.pc = "hdr_count"
    /\ scan' = [scan EXCEPT
                   !.pc = "read",
                   !.apt = IF scan.ln.nf >= 5 /\ scan.ln.id \notin DOMAIN gmapApt
                           THEN Apt(scan.ln.id) ELSE scan.apt]
    /\ UNCHANGED <<camera, fgLocals, orchVars, mtxGMapApt, gmapApt, YProbe, purgeBefore>>

\* AsyncReadApt returns, or an exception leaves it: the future becomes ready
BgExit ==
    /\ scan.pc \in {"ret", "throw"}
    /\ futRefreshing' = IF scan.pc = "ret" THEN "ready" ELSE "ready_exc"
    /\ nScans' = nScans - 1
    /\ scan' = IdleScan
    /\ purgeBefore' = EmptyMap
    /\ UNCHANGED <<camera, fgLocals, lastCameraPos, bAptsAdded, bStopThread,
                   mtxGMapApt, gmapApt, YProbe>>

FgNext ==
    \/ SetViewPos
    \/ LTAptRefresh
    \/ CallUpdateRwyAltitudes
    \/ AltLock
    \/ AltBody
    \/ CallLocalCoordsUpdate
    \/ LcLock
    \/ LcBody
    \/ LTAptDisable
    \/ DisableReturn
    \/ LTAptSnap
    \/ SnapBody
    \/ LTAptFindRwy
    \/ FindRwyBody
    \/ QueryReturn

BgNext ==
    \/ BgPurgeLock
    \/ BgPurgeStep
    \/ BgPurgeDone
    \/ BgOpenFile
    \/ BgOpenFail
    \/ BgSourcesDone
    \/ BgReadLine
    \/ BgReadEnd
    \/ BgTaxiLine
    \/ BgAddLock
    \/ BgAddEmplace
    \/ BgHdrCount
    \/ BgExit

Next == FgNext \/ BgNext

Spec == Init /\ [][Next]_vars

\* The operating system keeps scheduling the file reading thread, and a thread
\* blocked in futRefreshing.wait() wakes up once the future is ready.
FairSpec == Spec /\ WF_vars(BgNext) /\ WF_vars(DisableReturn)

\* -------------------------------------------- functions called on their own
\* The functions of the airport graph called one at a time by a single thread:
\* qry is the frame of the call (function, arguments, results), all other
\* variables stay as they are initially.
FnMargin == 8

fnOthers ==
    <<camera, fgpc, fgTick, bForce, orchVars, mtxGMapApt, gmapApt, YProbe, scan,
      purgeBefore>>

FnInit == Init /\ camera = NanPos

\* airport A as ReadOneAptFile builds it from LinesA, airport B from LinesB
FnAptA ==
    ProcessTaxiNodes(AddRwyEnds(Apt("A"), 0, 0, 0, "1", 0, 20, 0, "2"),
                     <<TaxiNode(0, 10), TaxiNode(20, 10)>>)
FnAptB == AddRwyEnds(Apt("B"), 0, 150, 0, "1", 0, 170, 0, "2")
FnApts == {FnAptA, FnAptB}

\* Apt::AddApt, both parts: prepare, then emplace under the lock
AddApt(map, apt) == {Emplace(map, a.id, a) : a \in AddAptPrepare(apt)}

\* the maps an airport is added to: the empty one, one holding another airport
FnBaseMaps(apt) ==
    {EmptyMap} \cup UNION {AddApt(EmptyMap, o) : o \in FnApts \ {apt}}

\* positions in and around the bounds of an airport not yet added
FnPositionsAround(apt) ==
    {positionTy(lat, lon) :
        lat \in (apt.bounds.se.lat - FnMargin)..(apt.bounds.nw.lat + FnMargin),
        lon \in (apt.bounds.nw.lon - FnMargin)..(apt.bounds.se.lon + FnMargin)}

\* Apt::AddApt(apt) followed by LTAptFind(pos)
FnAddAptFind ==
    /\ qry = NoQuery
    /\ \E apt \in FnApts : \E base \in FnBaseMaps(apt) : \E map \in AddApt(base, apt) :
       \E pos \in FnPositionsAround(apt) :
           qry' = [fn |-> "LTAptFind",
                   arg |-> [apt |-> apt, base |-> base, pos |-> pos],
                   out |-> LTAptFind(map, pos),
                   ret |-> LTAptFind(map, pos) # ""]
    /\ UNCHANGED fnOthers

\* airports with edges of many headings, sorted by heading as Apt::AddApt
\* leaves them; the two edges of heading 8 in either order
FnEdgesSorted ==
    {<<TaxiEdge("TAXI_WAY", 0, 1, 0, 10), e1, e2,
       TaxiEdge("RUN_WAY", 0, 1, 45, 10), TaxiEdge("TAXI_WAY", 3, 4, 90, 10),
       TaxiEdge("TAXI_WAY", 4, 5, 172, 10), TaxiEdge("RUN_WAY", 2, 3, 178, 10),
       TaxiEdge("TAXI_WAY", 5, 6, 359, 10)>> :
        <<e1, e2>> \in {<<TaxiEdge("TAXI_WAY", 1, 2, 8, 10), TaxiEdge("TAXI_WAY", 2, 3, 188, 10)>>,
                        <<TaxiEdge("TAXI_WAY", 2, 3, 188, 10), TaxiEdge("TAXI_WAY", 1, 2, 8, 10)>>}}
FnEdgeApts == {[Apt("A") EXCEPT !.vecTaxiEdges = e] : e \in FnEdgesSorted}
FnTolerances == {0, 10, 30, 89}
FnEdgeTypes == {"UNKNOWN_WAY", "TAXI_WAY", "RUN_WAY"}

\* Apt::FindEdgesForHeading(_headSearch, _angleTolerance, lst, _restrictType)
FnFindEdgesForHeading ==
    /\ qry = NoQuery
    /\ \E apt \in FnEdgeApts : \E head \in 0..359 : \E tol \in FnTolerances :
       \E type \in FnEdgeTypes :
           qry' = [fn |-> "FindEdgesForHeading",
                   arg |-> [apt |-> apt, head |-> head, tol |-> tol, type |-> type],
                   out |-> FindEdgesForHeading(apt, head, tol, type),
                   ret |-> FindEdgesForHeading(apt, head, tol, type) # <<>>]
    /\ UNCHANGED fnOthers

\* an airport of one taxiway from (0, 10) north to (len, 10)
FnSegApt(len) ==
    AddTaxiEdge(AddTaxiNode(AddTaxiNode(Apt("A"), 0, 10), len, 10), 0, 1, NAN)
\* an airport of two parallel taxiways north and one taxiway east
FnThreeSegApt ==
    LET n1 == AddTaxiNode(AddTaxiNode(Apt("A"), 0, 10), 20, 10)
        n2 == AddTaxiNode(AddTaxiNode(n1, 10, 14), 30, 14)
        n3 == AddTaxiNode(AddTaxiNode(n2, 40, 0), 40, 20)
    IN  AddTaxiEdge(AddTaxiEdge(AddTaxiEdge(n3, 4, 5, NAN), 2, 3, NAN), 0, 1, NAN)
FnSegLens == {4, 20, 40}
FnSegApts == {FnSegApt(len) : len \in FnSegLens} \cup {FnThreeSegApt}

\* the airports as Apt::AddApt and LTAptLocalCoordsUpdate leave them, and the
\* airport of one taxiway before its local coordinates are computed
FnSearchApts ==
    {AptLocalCoordsUpdate(a, TRUE) : a \in UNION {AddAptPrepare(apt) : apt \in FnSegApts}}
        \cup AddAptPrepare(FnSegApt(20))

\* positions in and around the bounds of an airport of gmapApt
FnPositionsNear(apt) ==
    {positionTy(lat, lon) :
        lat \in (apt.bounds.se.lat - FnMargin + FdSnapTaxiDist_m)
                   ..(apt.bounds.nw.lat + FnMargin - FdSnapTaxiDist_m),
        lon \in (apt.bounds.nw.lon - FnMargin + FdSnapTaxiDist_m)
                   ..(apt.bounds.se.lon + FnMargin - FdSnapTaxiDist_m)}
FnHeadings == {0, 25, 90, 180}
FnMaxDists == {3, FdSnapTaxiDist_m}

\* Apt::FindClosestEdge(pos, basePt, _maxDist_m, _angleTolerance)
FnFindClosestEdge ==
    /\ qry = NoQuery
    /\ \E apt \in FnSearchApts : \E p \in FnPositionsNear(apt) :
       \E head \in FnHeadings : \E maxDist_m \in FnMaxDists :
         \E pos \in {SnapPos(p.lat, p.lon, head)} :
         \E r \in {FindClosestEdge(apt, pos, maxDist_m, ART_EDGE_ANGLE_TOLERANCE)} :
           qry' = [fn |-> "FindClosestEdge",
                   arg |-> [apt |-> apt, pos |-> pos, maxDist_m |-> maxDist_m,
                            angleTolerance |-> ART_EDGE_ANGLE_TOLERANCE],
                   out |-> r,
                   ret |-> r.found]
    /\ UNCHANGED fnOthers

\* gmapApt with none, one or both of the airports A and B, after
\* LTAptLocalCoordsUpdate and LTAptUpdateRwyAltitudes, the terrain probe having
\* hit at any of the runway endpoints
RECURSIVE FnAddAll(_, _)
FnAddAll(map, apts) ==
    IF apts = {} THEN {map}
    ELSE LET apt == CHOOSE a \in apts : TRUE
         IN  UNION {FnAddAll(m, apts \ {apt}) : m \in AddApt(map, apt)}
FnRwyMaps ==
    {[k \in DOMAIN map |-> UpdateAltitudes(AptLocalCoordsUpdate(map[k], TRUE), ok)] :
        map \in FnAddAll(EmptyMap, {}) \cup FnAddAll(EmptyMap, {FnAptA})
                   \cup FnAddAll(EmptyMap, FnApts),
        ok \in SUBSET {positionTy(0, 2), positionTy(0, 18),
                       positionTy(0, 152), positionTy(0, 168)}}

\* aircraft west, east and south-west of the runways, and at an endpoint
FnAircraft ==
    {[lat |-> p[1], lon |-> p[2], alt_m |-> alt_m, heading |-> heading, ts |-> 0,
      speed_m_s |-> 10, vsi_min |-> vsi[1], vsi_max |-> vsi[2]] :
        p \in {<<0, -98>>, <<-100, -98>>, <<0, 2>>, <<0, 268>>},
        alt_m \in {3, 13, 103},
        heading \in {0, 80, 90, 270},
        vsi \in {<<-3, 0>>, <<-3, -1>>, <<-1, 0>>}}

\* LTAptFindRwy(_ac)
FnFindRwy ==
    /\ qry = NoQuery
    /\ \E map \in FnRwyMaps : \E ac \in FnAircraft :
       \E retPos \in {FindRwyUnderLock(map, ac)} :
           qry' = [fn |-> "LTAptFindRwy",
                   arg |-> [map |-> map, ac |-> ac],
                   out |-> retPos,
                   ret |-> retPos # NoRwyPos]
    /\ UNCHANGED fnOthers

\* sections of 2 to MaxPts points on a line north or east, given in order
\* along the line, each 2, 6 or 12 m from the one before
MaxPts == 5
FnGaps == {2, 6, 12}
RECURSIVE FnSumTo(_, _)
FnSumTo(gaps, i) == IF i = 0 THEN 0 ELSE gaps[i] + FnSumTo(gaps, i - 1)
FnColinear ==
    UNION {{[i \in 1..n |-> IF north THEN TaxiNode(FnSumTo(gaps, i - 1), 30)
                                     ELSE TaxiNode(30, FnSumTo(gaps, i - 1))] :
               gaps \in [1..(n - 1) -> FnGaps], north \in BOOLEAN} :
           n \in 2..MaxPts}

\* ReadOneTaxiLine, the processing of the nodes of the section read
FnProcessTaxiNodes ==
    /\ qry = NoQuery
    /\ \E apt \in {Apt("A"), FnAptA} : \E vecNodes \in FnColinear :
           qry' = [fn |-> "ReadOneTaxiLine",
                   arg |-> [apt |-> apt, vecNodes |-> vecNodes],
                   out |-> ProcessTaxiNodes(apt, vecNodes),
                   ret |-> TRUE]
    /\ UNCHANGED fnOthers

\* runways from (100, 300) north, east, south or west, of 50 to 2000 m, with
\* displaced thresholds of 0 to 50 m
FnRwyLens == {50, 100, 200, 2000}
FnDisplaced == {0, 10, 50}
FnRwyDirs == {<<1, 0>>, <<0, 1>>, <<-1, 0>>, <<0, -1>>}

\* Apt::AddRwyEnds(lat1, lon1, displaced1, id1, lat2, lon2, displaced2, id2)
FnAddRwyEnds ==
    /\ qry = NoQuery
    /\ \E apt \in {Apt("A"), FnAptB} : \E len \in FnRwyLens : \E dir \in FnRwyDirs :
       \E displaced1 \in FnDisplaced : \E displaced2 \in FnDisplaced :
         \E a \in {[lat1 |-> 100, lon1 |-> 300, displaced1 |-> displaced1, id1 |-> "1",
                     lat2 |-> 100 + len * dir[1], lon2 |-> 300 + len * dir[2],
                     displaced2 |-> displaced2, id2 |-> "2"]} :
           qry' = [fn |-> "AddRwyEnds",
                   arg |-> [apt |-> apt, rwy |-> a],
                   out |-> AddRwyEnds(apt, a.lat1, a.lon1, a.displaced1, a.id1,
                                      a.lat2, a.lon2, a.displaced2, a.id2),
                   ret |-> TRUE]
    /\ UNCHANGED fnOthers

\* LTAptSnap with dataRefs.GetFdSnapTaxiDist_m() = snapTaxiDist_m and
\* gmapApt = map, the whole function: [ret, pos]
LTAptSnapWithin(map, pos, snapTaxiDist_m) ==
    IF snapTaxiDist_m <= 0
    THEN [ret |-> FALSE, pos |-> pos]
    ELSE LET pApt == LTAptFind(map, pos)
         IN  IF pApt = ""
             THEN [ret |-> FALSE, pos |-> pos]
             ELSE SnapToTaxiwayWithin(map[pApt], pos, snapTaxiDist_m)

\* gmapApt empty, with the airports A and B before LTAptLocalCoordsUpdate, and
\* after it
FnSnapMaps ==
    {EmptyMap} \cup FnAddAll(EmptyMap, FnApts)
        \cup {[k \in DOMAIN map |-> AptLocalCoordsUpdate(map[k], TRUE)] :
                 map \in FnAddAll(EmptyMap, FnApts)}

\* positions in and around airport A, and one far from any airport, with
\* altitude, timestamp, heading and flight phase
FnSnapPositions ==
    {[lat |-> p.lat, lon |-> p.lon, alt_m |-> 3, ts |-> 7, heading |-> heading,
      flightPhase |-> flightPhase] :
        p \in FnPositionsAround(FnAptA) \cup {positionTy(500, 500)},
        heading \in {20, 90},
        flightPhase \in {"FPH_UNKNOWN", "FPH_TOUCH_DOWN"}}

\* the snapping distance: off, or FdSnapTaxiDist_m
FnSnapDists == {0, FdSnapTaxiDist_m}

\* LTAptSnap(pos, bLogging)
FnLTAptSnap ==
    /\ qry = NoQuery
    /\ \E map \in FnSnapMaps : \E pos \in FnSnapPositions :
       \E snapTaxiDist_m \in FnSnapDists :
         \E r \in {LTAptSnapWithin(map, pos, snapTaxiDist_m)} :
           qry' = [fn |-> "LTAptSnap",
                   arg |-> [map |-> map, pos |-> pos, snapTaxiDist_m |-> snapTaxiDist_m],
                   out |-> r.pos,
                   ret |-> r.ret]
    /\ UNCHANGED fnOthers

\* airports without nodes, with two nodes, and with two more nodes that lack
\* one or both geographic coordinates
FnNodeApts ==
    {Apt("A"), FnAptA,
     [FnAptA EXCEPT !.vecTaxiNodes = @ \o <<TaxiNode(NAN, NAN), TaxiNode(NAN, 10)>>]}

\* Apt::AddTaxiEdge(n1, n2, _dist)
FnAddTaxiEdge ==
    /\ qry = NoQuery
    /\ \E apt \in FnNodeApts : \E n1 \in 0..(Len(apt.vecTaxiNodes) + 1) :
       \E n2 \in 0..(Len(apt.vecTaxiNodes) + 1) : \E dist \in {NAN, 7} :
           qry' = [fn |-> "AddTaxiEdge",
                   arg |-> [apt |-> apt, n1 |-> n1, n2 |-> n2, dist |-> dist],
                   out |-> AddTaxiEdge(apt, n1, n2, dist),
                   ret |-> AddTaxiEdgeOK(apt, n1, n2)]
    /\ UNCHANGED fnOthers

\* airport C: runway (-10,100)-(-10,120) heading east, 10 m south of the line
\* through the runways of A and B; airport W: runway (200,0)-(0,17), heading
\* 175 from its first end
FnAptC == AddRwyEnds(Apt("C"), -10, 100, 0, "1", -10, 120, 0, "2")
FnAptW == AddRwyEnds(Apt("W"), 200, 0, 0, "1", 0, 17, 0, "2")

\* gmapApt with airports out of A, B, C, W after the two backfills; the
\* terrain probe hit at every runway endpoint but at most one
FnRwySets == {{FnAptA, FnAptC}, {FnAptA, FnAptB, FnAptC}, {FnAptW}, {FnAptA, FnAptW}}
FnAllEndPts(apts) ==
    UNION {{positionTy(apt.vecRwyEndPts[i].lat, apt.vecRwyEndPts[i].lon) :
               i \in DOMAIN apt.vecRwyEndPts} : apt \in apts}
FnRwyMapsOrder ==
    UNION {UNION {{[k \in DOMAIN map |->
                      UpdateAltitudes(AptLocalCoordsUpdate(map[k], TRUE), ok)] :
                      map \in FnAddAll(EmptyMap, apts)} :
                  ok \in {FnAllEndPts(apts)} \cup {FnAllEndPts(apts) \ {p} : p \in FnAllEndPts(apts)}} :
           apts \in FnRwySets}

\* aircraft on the line through the runways of A and B, west and east of
\* them, and south and north of airport W
FnAircraftOrder ==
    {[lat |-> p[1], lon |-> p[2], alt_m |-> alt_m, heading |-> heading, ts |-> 0,
      speed_m_s |-> 10, vsi_min |-> -3, vsi_max |-> 0] :
        p \in {<<0, -98>>, <<0, 268>>, <<-100, 16>>, <<300, 1>>},
        alt_m \in {13, 53},
        heading \in {90, 93, 96, 270, 266, 2, 357, 182, 177}}

\* LTAptFindRwy(_ac), more airports
FnFindRwyOrder ==
    /\ qry = NoQuery
    /\ \E map \in FnRwyMapsOrder : \E ac \in FnAircraftOrder :
       \E retPos \in {FindRwyUnderLock(map, ac)} :
           qry' = [fn |-> "LTAptFindRwy",
                   arg |-> [map |-> map, ac |-> ac],
                   out |-> retPos,
                   ret |-> retPos # NoRwyPos]
    /\ UNCHANGED fnOthers

\* the headings CoordAngle and the callers of the constructor can give
FnRawHeadings == 0..359
\* node indexes
FnNodeIdx == 0..2

\* TaxiEdge::TaxiEdge(_t, _a, _b, _angle, _dist_m)
FnTaxiEdge ==
    /\ qry = NoQuery
    /\ \E t \in {"TAXI_WAY", "RUN_WAY"} : \E a \in FnNodeIdx : \E b \in FnNodeIdx \ {a} :
       \E angle \in FnRawHeadings :
           qry' = [fn |-> "TaxiEdge",
                   arg |-> [t |-> t, a |-> a, b |-> b, angle |-> angle, dist_m |-> 10],
                   out |-> TaxiEdge(t, a, b, angle, 10),
                   ret |-> TRUE]
    /\ UNCHANGED fnOthers

\* the call returns
FnReturn ==
    /\ qry # NoQuery
    /\ qry' = NoQuery
    /\ UNCHANGED fnOthers

FnNext ==
    \/ FnAddAptFind
    \/ FnFindEdgesForHeading
    \/ FnFindClosestEdge
    \/ FnFindRwy
    \/ FnProcessTaxiNodes
    \/ FnAddRwyEnds
    \/ FnLTAptSnap
    \/ FnAddTaxiEdge
    \/ FnTaxiEdge
    \/ FnFindRwyOrder
    \/ FnReturn

FnSpec == FnInit /\ [][FnNext]_vars

\* ------------------------------------------------- the parser on its own
\* One scan from its launch to its end, with no other foreground activity
\* than LTAptDisable: the state is the one LTAptRefresh leaves when it has
\* launched AsyncReadApt.
ParseInputs == 1..Len(AllSourceLists)

\* the camera at the place of airport A, or at the meridian of 180 degrees
ParseCameras == {positionTy(0, 0), positionTy(0, Lon180 - 20)}

\* the registry at launch: empty, holding airport A read by an earlier scan,
\* or holding airport B read by an earlier scan
ParseMaps == {EmptyMap} \cup AddApt(EmptyMap, FnAptA) \cup AddApt(EmptyMap, FnAptB)

ParseInit ==
    /\ camera \in ParseCameras
    /\ fgpc = "idle"
    /\ fgTick = FALSE
    /\ bForce = FALSE
    /\ lastCameraPos = camera
    /\ bAptsAdded = TRUE
    /\ futRefreshing = "running"
    /\ nScans = 1
    /\ bStopThread = FALSE
    /\ mtxGMapApt = "free"
    /\ gmapApt \in ParseMaps
    /\ YProbe = FALSE
    /\ \E i \in ParseInputs : scan = AsyncReadApt(camera, 2 * FdStdDistance_m, i)
    /\ qry = NoQuery
    /\ purgeBefore = EmptyMap

ParseNext ==
    \/ BgNext
    \/ LTAptDisable
    \/ DisableReturn

ParseSpec == ParseInit /\ [][ParseNext]_vars

\* The operating system keeps scheduling the file reading thread.
ParseFairSpec == ParseSpec /\ WF_vars(BgNext) /\ WF_vars(DisableReturn)

\* ------------------------------------------------------------- properties
\* a tick of LTAptRefresh that returns without doing anything: a scan is
\* running, the camera position is not valid, or the camera is near the last
\* scan center and no airports were added
TickChangesNothing ==
    \/ futRefreshing = "running"
    \/ ~isNormal(camera)
    \/ DistLess(lastCameraPos, camera, FdStdDistance_m) /\ ~bAptsAdded

\* LTAptRefresh is inside its calls of LTAptUpdateRwyAltitudes and
\* LTAptLocalCoordsUpdate
InTickBackfill == fgTick /\ fgpc \in {"alt_wait", "alt_crit", "lc_wait", "lc_crit"}

\* C1: at most one background scan is in flight at any time, and as long as a
\* scan is running no step, in particular no tick of LTAptRefresh, launches
\* another scan or changes lastCameraPos or bAptsAdded.
C1_OneScanInFlight ==
    [][ /\ nScans' <= 1
        /\ (futRefreshing = "running"
              => /\ nScans' <= nScans
                 /\ lastCameraPos' = lastCameraPos
                 /\ bAptsAdded' = bAptsAdded) ]_vars

\* a tick is due while a scan is running, and the camera has moved away from
\* the last scan center far enough to ask for a new scan
C1_TickDuringScan ==
    /\ futRefreshing = "running"
    /\ scan.pc = "read"
    /\ fgpc = "idle"
    /\ isNormal(camera)
    /\ ~DistLess(lastCameraPos, camera, FdStdDistance_m)

\* C2: every access to gmapApt, by the foreground or by the file reading
\* thread (the check for an already registered airport id included), happens
\* while the accessing thread holds mtxGMapApt.
C2_AllAccessLocked ==
    /\ (scan.pc \in {"purge", "hdr_add_crit", "eof_add_crit", "hdr_count"}
          => mtxGMapApt = "bg")
    /\ (fgpc \in {"alt_crit", "lc_crit", "snap_crit", "rwy_crit"}
          => mtxGMapApt = "fg")

Range(seq) == {seq[i] : i \in DOMAIN seq}

\* all points of an airport: taxi nodes and runway endpoints
AptPoints(apt) ==
    {positionTy(n.lat, n.lon) : n \in Range(apt.vecTaxiNodes)}
        \cup {positionTy(n.lat, n.lon) : n \in Range(apt.vecRwyEndPts)}

\* the smallest box around all points of an airport
TightBounds(apt) ==
    LET lats == {p.lat : p \in AptPoints(apt)}
        lons == {p.lon : p \in AptPoints(apt)}
    IN  boundingBoxTy(
            positionTy(CHOOSE x \in lats : \A y \in lats : y <= x,
                       CHOOSE x \in lons : \A y \in lons : x <= y),
            positionTy(CHOOSE x \in lats : \A y \in lats : x <= y,
                       CHOOSE x \in lons : \A y \in lons : y <= x))

\* an airport as Apt::AddApt leaves it in the map
FullyInserted(apt) ==
    /\ IsValid(apt)
    /\ apt.bounds = enlarge_m(TightBounds(apt), FdSnapTaxiDist_m)
    /\ IsSortedByHeading(apt.vecTaxiEdges)
    /\ Cardinality({i \in DOMAIN apt.vecTaxiEdges :
                        apt.vecTaxiEdges[i].type = "RUN_WAY"}) * 2
          = Len(apt.vecRwyEndPts)
    /\ \A e \in Range(apt.vecTaxiEdges) :
          LET n == IF e.type = "RUN_WAY"
                   THEN Len(apt.vecRwyEndPts) ELSE Len(apt.vecTaxiNodes)
          IN  e.a \in 0..(n - 1) /\ e.b \in 0..(n - 1) /\ e.a # e.b

\* C3: while a query (LTAptSnap, LTAptFindRwy) reads the map no purge and no
\* insert is in progress, and every airport it finds is fully inserted: stored
\* under its id, bounds enlarged by the snapping distance, edges sorted by
\* heading, nodes, endpoints and edges all there.
C3_QueriesSeeWholeAirports ==
    fgpc \in {"snap_crit", "rwy_crit"}
      => /\ mtxGMapApt = "fg"
         /\ scan.pc \notin {"purge", "hdr_add_crit", "eof_add_crit"}
         /\ \A k \in DOMAIN gmapApt :
               /\ gmapApt[k].id = k
               /\ FullyInserted(gmapApt[k])

\* a query reads a map with airports while the file reading thread waits for
\* the lock to insert another one
C3_QueryWhileInsertWaits ==
    /\ fgpc \in {"snap_crit", "rwy_crit"}
    /\ scan.pc \in {"hdr_add_wait", "eof_add_wait"}
    /\ HasTaxiWays(scan.apt)
    /\ DOMAIN gmapApt # {}

\* C4: LTAptDisable sets bStopThread and returns only after the file reading
\* thread has exited; with the thread scheduled and the input finite it does
\* return, and from its return on no scan runs and the set of airports in the
\* map does not change as long as no scan is launched again.
C4_DisableWaitsForScan ==
    /\ [](fgpc = "dis_wait" => bStopThread)
    /\ [][(fgpc = "dis_wait" /\ fgpc' = "idle")
            => /\ futRefreshing # "running"
               /\ scan.pc = "idle"
               /\ nScans = 0
               /\ mtxGMapApt = "free"
               /\ UNCHANGED <<scan, gmapApt, nScans, futRefreshing>>]_vars
    /\ [][(scan.pc = "idle" /\ nScans' = nScans)
            => /\ scan'.pc = "idle"
               /\ DOMAIN gmapApt' = DOMAIN gmapApt]_vars
    /\ ((fgpc = "dis_wait") ~> (fgpc = "idle"))

\* LTAptDisable waits while the file reading thread is in the middle of a
\* taxiway section, where the stop flag is not looked at
C4_DisableDuringScan ==
    /\ fgpc = "dis_wait"
    /\ bStopThread
    /\ futRefreshing = "running"
    /\ scan.pc = "taxi"
    /\ scan.vecNodes # <<>>

\* C5: LTAptRefresh is idempotent: when a call of LTAptRefresh has returned,
\* having launched a scan or having run the backfill, the next call changes
\* nothing unless the camera moves or the scan completes in between; a call
\* that changes nothing leaves lastCameraPos, futRefreshing, bAptsAdded,
\* bStopThread and the map as they are.
C5_RefreshIdempotent ==
    [][ /\ ((fgpc = "idle" /\ fgpc' = "idle" /\ nScans' > nScans)
              => TickChangesNothing')
        /\ ((fgTick /\ fgpc = "lc_crit" /\ fgpc' = "idle")
              => TickChangesNothing')
        /\ ((fgpc = "idle" /\ LTAptRefresh /\ TickChangesNothing)
              => UNCHANGED vars) ]_vars

\* LTAptRefresh has run the backfill and returned; the next call finds the
\* camera where it was and no scan running
C5_SecondCallAfterBackfill ==
    /\ fgpc = "idle"
    /\ futRefreshing = "ready"
    /\ isNormal(camera)
    /\ DistLess(lastCameraPos, camera, FdStdDistance_m)
    /\ ~bAptsAdded
    /\ "A" \in DOMAIN gmapApt
    /\ HasLocalCoords(gmapApt["A"].vecRwyEndPts[1])

\* C6: a scan is launched only by a tick that finds no scan running, a valid
\* camera position, and the camera at least FdStdDistance_m away from
\* lastCameraPos (or no scan launched so far); the launch sets lastCameraPos to
\* the camera position, and no other step changes lastCameraPos.
C6_LaunchRule ==
    [][ IF nScans' > nScans
        THEN /\ fgpc = "idle"
             /\ futRefreshing # "running"
             /\ isNormal(camera)
             /\ \/ ~isNormal(lastCameraPos)
                \/ DistLatLonSqr(lastCameraPos.lat, lastCameraPos.lon,
                                 camera.lat, camera.lon) >= sqr(FdStdDistance_m)
             /\ futRefreshing' = "running"
             /\ lastCameraPos' = camera
        ELSE lastCameraPos' = lastCameraPos ]_vars

\* a second scan has just been launched from a new camera position, with
\* airports of the scan before in the map
C6_Relaunched ==
    /\ scan.pc = "purge_wait"
    /\ futRefreshing = "running"
    /\ lastCameraPos = camera
    /\ DOMAIN gmapApt # {}

\* C7: after a launch, the first tick that finds no scan running and the
\* camera near lastCameraPos calls LTAptUpdateRwyAltitudes and then
\* LTAptLocalCoordsUpdate and clears bAptsAdded; a tick starts the backfill
\* only if bAptsAdded is set, which only a launch does, so later ticks run no
\* backfill; no backfill of a tick runs while a scan is running.
C7_BackfillOnce ==
    [][ /\ (InTickBackfill' => futRefreshing' # "running")
        /\ ((fgpc = "idle" /\ InTickBackfill')
              => /\ futRefreshing # "running"
                 /\ DistLess(lastCameraPos, camera, FdStdDistance_m)
                 /\ bAptsAdded)
        /\ ((/\ fgpc = "idle" /\ LTAptRefresh
             /\ futRefreshing # "running" /\ isNormal(camera)
             /\ DistLess(lastCameraPos, camera, FdStdDistance_m) /\ bAptsAdded)
              => fgpc' = "alt_wait" /\ fgTick')
        /\ ((fgTick /\ fgpc = "alt_crit" /\ fgpc' # fgpc)
              => fgpc' = "lc_wait" /\ fgTick' /\ ~bForce' /\ bAptsAdded')
        /\ ((fgTick /\ fgpc = "lc_crit" /\ fgpc' # fgpc)
              => fgpc' = "idle" /\ ~bAptsAdded')
        /\ ((bAptsAdded' /\ ~bAptsAdded) => nScans' > nScans) ]_vars

\* the tick after a scan: altitudes are filled in, the local coordinates are
\* about to be
C7_BackfillRuns ==
    /\ fgTick
    /\ fgpc = "lc_crit"
    /\ bAptsAdded
    /\ "A" \in DOMAIN gmapApt
    /\ ~isnan(gmapApt["A"].alt_m)
    /\ ~HasLocalCoords(gmapApt["A"].vecRwyEndPts[1])

\* C8: a parsing error never aborts a scan: no line with a token that is not a
\* number where a number is expected makes the file reading thread leave
\* AsyncReadApt by an exception, with later lines and sources unread.
C8_ParseErrorNeverAborts ==
    /\ scan.pc # "throw"
    /\ futRefreshing # "ready_exc"

\* the airports of the map before the purge of the running scan which overlap
\* the scan's search box
OverlappingBefore ==
    {k \in DOMAIN purgeBefore : overlap(purgeBefore[k].bounds, scan.box)}

\* AsyncReadApt has tried all sources and could not open any
NoSourceOpened ==
    /\ scan.pc = "ret"
    /\ scan.cntFiles = 0
    /\ scan.srcIdx > Len(Sources)
    /\ \A i \in DOMAIN Sources : ~Sources[i].open

\* C9 as stated: if a scan cannot open any apt.dat file at all, the map holds
\* after the scan exactly the entries it held before the scan started.
C9_RegistryAsBefore ==
    NoSourceOpened
      => DOMAIN gmapApt = DOMAIN purgeBefore

\* C9 amended: if a scan cannot open any apt.dat file at all, the map holds
\* after the scan exactly those entries it held before the scan started whose
\* bounds overlap the scan's search box: no entry is added, and the entries
\* which do not overlap the search box are removed.
C9_PurgedOnly ==
    NoSourceOpened
      => DOMAIN gmapApt = OverlappingBefore

\* a scan for which no file could be opened returns having removed an airport
C9_NoFileButPurged ==
    /\ NoSourceOpened
    /\ DOMAIN gmapApt # DOMAIN purgeBefore
    /\ DOMAIN gmapApt # {}

C11_AddAptFindRoundTrip ==
    (qry.fn = "LTAptFind"
       /\ \A k \in DOMAIN qry.arg.base : ~contains(qry.arg.base[k].bounds, qry.arg.pos))
      => LET b == TightBounds(qry.arg.apt)
             pos == qry.arg.pos
             inside == /\ b.se.lat - FdSnapTaxiDist_m <= pos.lat
                       /\ pos.lat <= b.nw.lat + FdSnapTaxiDist_m
                       /\ b.nw.lon - FdSnapTaxiDist_m <= pos.lon
                       /\ pos.lon <= b.se.lon + FdSnapTaxiDist_m
         IN  /\ inside => qry.out = qry.arg.apt.id /\ qry.ret
             /\ ~inside => qry.out = "" /\ ~qry.ret

\* airport A added to a map holding airport B, and found by a position in the
\* margin the bounds are enlarged by: 4 m south of the southernmost point
C11_FoundInMargin ==
    /\ qry.fn = "LTAptFind"
    /\ qry.arg.apt.id = "A"
    /\ "B" \in DOMAIN qry.arg.base
    /\ qry.arg.pos = positionTy(-4, 10)
    /\ qry.out = "A"

\* the difference of two headings of [0, 180), measured around the half circle
HalfCircleDiff(h1, h2) == Min((h1 - h2) % 180, (h2 - h1) % 180)

\* C12: on edges sorted by heading, for every search heading of [0, 360) and
\* every tolerance of [0, 90), FindEdgesForHeading returns exactly the edges of
\* the requested type (all types if none is requested) whose heading differs
\* from the search heading, both taken modulo 180, by at most the tolerance,
\* and returns each of them once.
C12_ExactlyTheEdgesInTolerance ==
    qry.fn = "FindEdgesForHeading"
      => LET a == qry.arg
             matching == {e \in Range(a.apt.vecTaxiEdges) :
                            /\ HalfCircleDiff(e.angle, a.head % 180) <= a.tol
                            /\ a.type \in {"UNKNOWN_WAY", e.type}}
         IN  /\ IsSortedByHeading(a.apt.vecTaxiEdges)
             /\ Range(qry.out) = matching
             /\ Len(qry.out) = Cardinality(matching)
             /\ qry.ret = (matching # {})

\* heading 5 with tolerance 10: the edges of headings 0, 8, 8 (once 188), 178
\* and 179 (once 359) are returned, from either side of the wrap
C12_BothSidesOfTheWrap ==
    /\ qry.fn = "FindEdgesForHeading"
    /\ qry.arg.head = 5 /\ qry.arg.tol = 10 /\ qry.arg.type = "UNKNOWN_WAY"
    /\ {e.angle : e \in Range(qry.out)} = {0, 8, 178, 179}
    /\ Len(qry.out) = 5

\* FindClosestEdge was called on an airport of one taxiway north, with local
\* coordinates, from a position whose heading matches the taxiway's and whose
\* distance to the taxiway's line is below _maxDist_m
NearOneSegment ==
    /\ qry.fn = "FindClosestEdge"
    /\ Len(qry.arg.apt.vecTaxiEdges) = 1
    /\ \A i \in 1..2 : HasLocalCoords(qry.arg.apt.vecTaxiNodes[i])
    /\ HalfCircleDiff(qry.arg.apt.vecTaxiEdges[1].angle, qry.arg.pos.heading % 180)
         <= qry.arg.angleTolerance
    /\ Abs(qry.arg.pos.lon - qry.arg.apt.vecTaxiNodes[1].lon) < qry.arg.maxDist_m

\* by how many metres the base of the position on the line of the one taxiway
\* lies beyond the nearer end of the taxiway (0 if between the ends)
BeyondEnd_m ==
    Max(0, Max(qry.arg.pos.lat - qry.arg.apt.vecTaxiNodes[2].lat,
               qry.arg.apt.vecTaxiNodes[1].lat - qry.arg.pos.lat))

\* C13: a heading-matching edge whose line is nearer than _maxDist_m is
\* accepted whenever the base on the line lies beyond an end of the edge by at
\* most _maxDist_m metres, and rejected when it lies beyond by more, whatever
\* the length of the edge.
C13_UnifiedTolerance ==
    NearOneSegment
      => /\ BeyondEnd_m <= qry.arg.maxDist_m => qry.ret
         /\ BeyondEnd_m > qry.arg.maxDist_m => ~qry.ret

\* the geometry of the position of a FindClosestEdge call relative to the edge
\* e of the airport, whose edges run north or east: the distance to the line
\* of the edge, the distance of the base on that line beyond the nearer end of
\* the edge (0 between the ends), and the base
EdgeRunsNorth(e) == GetA(e, qry.arg.apt).lon = GetB(e, qry.arg.apt).lon
EdgeLateral_m(e) ==
    IF EdgeRunsNorth(e)
    THEN Abs(qry.arg.pos.lon - GetA(e, qry.arg.apt).lon)
    ELSE Abs(qry.arg.pos.lat - GetA(e, qry.arg.apt).lat)
EdgeBeyond_m(e) ==
    LET a == GetA(e, qry.arg.apt)
        b == GetB(e, qry.arg.apt)
    IN  IF EdgeRunsNorth(e)
        THEN Max(0, Max(qry.arg.pos.lat - Max(a.lat, b.lat),
                        Min(a.lat, b.lat) - qry.arg.pos.lat))
        ELSE Max(0, Max(qry.arg.pos.lon - Max(a.lon, b.lon),
                        Min(a.lon, b.lon) - qry.arg.pos.lon))
EdgeProjection(e) ==
    IF EdgeRunsNorth(e)
    THEN positionTy(qry.arg.pos.lat, GetA(e, qry.arg.apt).lon)
    ELSE positionTy(GetA(e, qry.arg.apt).lat, qry.arg.pos.lon)

\* the edges FindClosestEdge is to choose from
QualifyingEdges ==
    {e \in Range(qry.arg.apt.vecTaxiEdges) :
        /\ HalfCircleDiff(e.angle, qry.arg.pos.heading % 180) <= qry.arg.angleTolerance
        /\ HasLocalCoords(GetA(e, qry.arg.apt)) /\ HasLocalCoords(GetB(e, qry.arg.apt))
        /\ sqr(EdgeLateral_m(e)) < sqr(qry.arg.maxDist_m)
        /\ sqr(EdgeBeyond_m(e)) <= sqr(qry.arg.maxDist_m)}

\* C14: FindClosestEdge returns, among the heading-matching edges with local
\* coordinates whose square distance to the position is below the square of
\* _maxDist_m and whose base lies beyond the ends by at most _maxDist_m
\* (squared), the edge of the smallest distance, and as base point the
\* perpendicular projection of the position on it; it returns no edge, and
\* leaves the base point alone, if there is no such edge.
C14_ClosestQualifyingEdge ==
    qry.fn = "FindClosestEdge"
      => IF QualifyingEdges = {}
         THEN ~qry.out.found /\ qry.out.basePt = qry.arg.pos
         ELSE /\ qry.out.found
              /\ qry.out.edge \in QualifyingEdges
              /\ \A e \in QualifyingEdges :
                     EdgeLateral_m(qry.out.edge) <= EdgeLateral_m(e)
              /\ qry.out.basePt.lat = EdgeProjection(qry.out.edge).lat
              /\ qry.out.basePt.lon = EdgeProjection(qry.out.edge).lon

\* the runway endpoint rwyEP is one the aircraft ac may aim at: its altitude
\* is known, the vertical speed needed to reach it at the aircraft's speed
\* lies within the aircraft's range, and the bearing to it deviates from the
\* aircraft's heading by at most ART_RWY_MAX_HEAD_DIFF
RwyEndPtSuits(ac, rwyEP) ==
    LET dist == CoordDistance(ac.lat, ac.lon, rwyEP.lat, rwyEP.lon)
        bearing == CoordAngle(ac.lat, ac.lon, rwyEP.lat, rwyEP.lon)
    IN  /\ ~isnan(rwyEP.alt_m)
        /\ ac.vsi_min * dist <= (rwyEP.alt_m - ac.alt_m) * ac.speed_m_s
        /\ (rwyEP.alt_m - ac.alt_m) * ac.speed_m_s <= ac.vsi_max * dist
        /\ Abs(HeadingDiff(ac.heading, bearing)) <= ART_RWY_MAX_HEAD_DIFF

\* the endpoints of the edges of type RUN_WAY of all airports of the map
RwyEndPtsOf(map) ==
    UNION {UNION {{GetA(e, map[k]), GetB(e, map[k])} :
                     e \in {r \in Range(map[k].vecTaxiEdges) : r.type = "RUN_WAY"}} :
              k \in DOMAIN map}

\* C15: every position LTAptFindRwy returns is an endpoint of a runway edge
\* of an airport of the map which the aircraft may aim at (known altitude,
\* vertical speed within the aircraft's range, bearing within the maximum
\* heading difference); if there is no such endpoint, it returns no position.
C15_RunwayWithinEnvelope ==
    qry.fn = "LTAptFindRwy"
      => /\ qry.ret
              => \E rwyEP \in RwyEndPtsOf(qry.arg.map) :
                    /\ qry.out.lat = rwyEP.lat /\ qry.out.lon = rwyEP.lon
                    /\ qry.out.alt_m = rwyEP.alt_m
                    /\ RwyEndPtSuits(qry.arg.ac, rwyEP)
         /\ (\A rwyEP \in RwyEndPtsOf(qry.arg.map) : ~RwyEndPtSuits(qry.arg.ac, rwyEP))
              => ~qry.ret /\ qry.out = NoRwyPos

\* two runway endpoints straight ahead of the aircraft, altitudes known: the
\* one of airport B would need a vertical speed outside the range and the
\* one of airport A is returned
C15_NearerRunwayInEnvelope ==
    /\ qry.fn = "LTAptFindRwy"
    /\ qry.arg.ac.lat = 0 /\ qry.arg.ac.lon = -98 /\ qry.arg.ac.heading = 90
    /\ DOMAIN qry.arg.map = {"A", "B"}
    /\ ~isnan(qry.arg.map["B"].vecRwyEndPts[1].alt_m)
    /\ ~RwyEndPtSuits(qry.arg.ac, qry.arg.map["B"].vecRwyEndPts[1])
    /\ qry.ret
    /\ qry.out.lat = qry.arg.map["A"].vecRwyEndPts[1].lat
    /\ qry.out.lon = qry.arg.map["A"].vecRwyEndPts[1].lon

\* the sum of the dist_m of the edges
RECURSIVE SumDist(_)
SumDist(edges) == IF edges = <<>> THEN 0 ELSE Head(edges).dist_m + SumDist(Tail(edges))

\* the nodes and the edges the processing of a section has added to the airport
NodesAdded ==
    SubSeq(qry.out.vecTaxiNodes, Len(qry.arg.apt.vecTaxiNodes) + 1,
           Len(qry.out.vecTaxiNodes))
EdgesAdded ==
    SubSeq(qry.out.vecTaxiEdges, Len(qry.arg.apt.vecTaxiEdges) + 1,
           Len(qry.out.vecTaxiEdges))

\* C16: from a section of n >= 2 points on a line, given in order, the
\* thinning adds the first and the last point and some of the points between,
\* in order, as taxi nodes, connects each added node with the next by one
\* TAXI_WAY edge (added nodes - 1 edges), and the lengths of these edges sum
\* to the sum of the distances between the consecutive points of the section.
C16_ThinnedChain ==
    qry.fn = "ReadOneTaxiLine"
      => LET pts == qry.arg.vecNodes
             n == Len(pts)
             base == Len(qry.arg.apt.vecTaxiNodes)
             k == Len(NodesAdded)
         IN  /\ k >= 2 /\ k <= n
             /\ NodesAdded[1] = pts[1] /\ NodesAdded[k] = pts[n]
             /\ \E f \in [1..k -> 1..n] :
                   /\ \A i \in 1..(k - 1) : f[i] < f[i + 1]
                   /\ \A i \in 1..k : NodesAdded[i] = pts[f[i]]
             /\ Len(EdgesAdded) = k - 1
             /\ \A i \in 1..(k - 1) :
                   /\ EdgesAdded[i].type = "TAXI_WAY"
                   /\ {EdgesAdded[i].a, EdgesAdded[i].b} = {base + i - 1, base + i}
             /\ SumDist(EdgesAdded)
                  = FnSumTo([i \in 1..(n - 1) |->
                               CoordDistance(pts[i].lat, pts[i].lon,
                                             pts[i + 1].lat, pts[i + 1].lon)], n - 1)
             /\ SubSeq(qry.out.vecTaxiNodes, 1, base) = qry.arg.apt.vecTaxiNodes
             /\ SubSeq(qry.out.vecTaxiEdges, 1, Len(qry.arg.apt.vecTaxiEdges))
                  = qry.arg.apt.vecTaxiEdges

\* 5 points each 2 m apart have become 2 nodes and 1 edge of 8 m
C16_FivePointsOneEdge ==
    /\ qry.fn = "ReadOneTaxiLine"
    /\ Len(qry.arg.vecNodes) = 5
    /\ \A i \in 1..5 : qry.arg.vecNodes[i] = TaxiNode(30, 2 * (i - 1))
    /\ Len(NodesAdded) = 2
    /\ Len(EdgesAdded) = 1
    /\ EdgesAdded[1].dist_m = 8

\* the raw length of the runway handed to AddRwyEnds, and what remains of it
\* between the displaced thresholds
RwyRawLen ==
    CoordDistance(qry.arg.rwy.lat1, qry.arg.rwy.lon1, qry.arg.rwy.lat2, qry.arg.rwy.lon2)
RwyRemaining == RwyRawLen - qry.arg.rwy.displaced1 - qry.arg.rwy.displaced2

\* the point re lies on the runway, d metres from its raw end 1
OnRwyFromEnd1(re, d) ==
    /\ CoordDistance(qry.arg.rwy.lat1, qry.arg.rwy.lon1, re.lat, re.lon) = d
    /\ CoordDistance(qry.arg.rwy.lat2, qry.arg.rwy.lon2, re.lat, re.lon) = RwyRawLen - d

C18_SnapChangesPositionOnly ==
    qry.fn = "LTAptSnap"
      => /\ ~qry.ret => qry.out = qry.arg.pos
         /\ qry.ret
              => /\ qry.out.alt_m = qry.arg.pos.alt_m
                 /\ qry.out.ts = qry.arg.pos.ts
                 /\ qry.out.heading = qry.arg.pos.heading
                 /\ qry.out.flightPhase \in {qry.arg.pos.flightPhase, "FPH_TAXI"}
                 /\ DOMAIN qry.out = DOMAIN qry.arg.pos
         /\ qry.arg.snapTaxiDist_m <= 0 => ~qry.ret
         /\ (\A k \in DOMAIN qry.arg.map : ~contains(qry.arg.map[k].bounds, qry.arg.pos))
              => ~qry.ret
         /\ (\A k \in DOMAIN qry.arg.map :
               \A n \in Range(qry.arg.map[k].vecTaxiNodes)
                         \cup Range(qry.arg.map[k].vecRwyEndPts) : ~HasLocalCoords(n))
              => ~qry.ret

\* a position 3 m east of A's taxiway is snapped on it: lat and lon moved, the
\* flight phase has become FPH_TAXI
C18_SnappedToTaxiway ==
    /\ qry.fn = "LTAptSnap"
    /\ qry.arg.pos.lat = 12 /\ qry.arg.pos.lon = 13 /\ qry.arg.pos.heading = 20
    /\ qry.arg.pos.flightPhase = "FPH_TOUCH_DOWN"
    /\ qry.ret
    /\ qry.out.lat = 12 /\ qry.out.lon = 10
    /\ qry.out.flightPhase = "FPH_TAXI"

\* an airport with an id, at least one edge and at least one runway endpoint
UsableApt(apt) ==
    apt.id # "" /\ Len(apt.vecTaxiEdges) >= 1 /\ Len(apt.vecRwyEndPts) >= 1

\* every airport of gmapApt is usable and stored under its own id
AllEntriesUsable ==
    \A k \in DOMAIN gmapApt : UsableApt(gmapApt[k]) /\ gmapApt[k].id = k

\* a step that adds a key to gmapApt is the emplace of Apt::AddApt with the
\* usable airport the file reading thread has parsed, under that airport's id;
\* a step that removes a key is a step of PurgeApt's loop on an airport whose
\* bounds do not overlap the search box
OnlyAddAptAndPurge ==
    /\ \A k \in DOMAIN gmapApt' \ DOMAIN gmapApt :
          /\ scan.pc \in {"hdr_add_crit", "eof_add_crit"}
          /\ mtxGMapApt = "bg"
          /\ UsableApt(scan.apt)
          /\ k = scan.apt.id
          /\ gmapApt'[k] = scan.apt
    /\ \A k \in DOMAIN gmapApt \ DOMAIN gmapApt' :
          /\ scan.pc = "purge"
          /\ mtxGMapApt = "bg"
          /\ ~overlap(gmapApt[k].bounds, scan.box)

\* C19: in every reachable state every entry of gmapApt is a valid airport
\* (an id, at least one edge, at least one runway endpoint) stored under its
\* own id; entries are added by the parser's insert of a valid airport only
\* and removed by the purge only.
C19_ValidEntriesOnly == []AllEntriesUsable /\ [][OnlyAddAptAndPurge]_vars

\* the registry holds an airport while the purge of a later scan has removed
\* another one
C19_AddedAndPurged ==
    /\ DOMAIN gmapApt # {}
    /\ AllEntriesUsable
    /\ \E k \in DOMAIN purgeBefore : k \notin DOMAIN gmapApt

\* the index n handed to AddTaxiEdge is out of the range of the airport's taxi
\* nodes, or the node at n lacks a geographic coordinate
BadNodeIndex(n) ==
    \/ n >= Len(qry.arg.apt.vecTaxiNodes)
    \/ isnan(qry.arg.apt.vecTaxiNodes[n + 1].lat)
    \/ isnan(qry.arg.apt.vecTaxiNodes[n + 1].lon)

\* C20: AddTaxiEdge(n1, n2, _dist) with an index out of range or a node
\* lacking geographic coordinates returns false and leaves the airport (nodes,
\* runway endpoints, edges, bounds) as it was; otherwise it returns true and
\* appends exactly one TAXI_WAY edge between the two nodes, with _dist as its
\* length if given.
C20_AddTaxiEdgeAllOrNothing ==
    qry.fn = "AddTaxiEdge"
      => IF BadNodeIndex(qry.arg.n1) \/ BadNodeIndex(qry.arg.n2)
         THEN ~qry.ret /\ qry.out = qry.arg.apt
         ELSE /\ qry.ret
              /\ Len(qry.out.vecTaxiEdges) = Len(qry.arg.apt.vecTaxiEdges) + 1
              /\ SubSeq(qry.out.vecTaxiEdges, 1, Len(qry.arg.apt.vecTaxiEdges))
                   = qry.arg.apt.vecTaxiEdges
              /\ LET e == qry.out.vecTaxiEdges[Len(qry.out.vecTaxiEdges)]
                 IN  /\ e.type = "TAXI_WAY"
                     /\ {e.a, e.b} = {qry.arg.n1, qry.arg.n2}
                     /\ ~isnan(qry.arg.dist) => e.dist_m = qry.arg.dist
                     /\ ~isnan(e.dist_m)
              /\ qry.out.vecTaxiNodes = qry.arg.apt.vecTaxiNodes
              /\ qry.out.vecRwyEndPts = qry.arg.apt.vecRwyEndPts
              /\ qry.out.bounds = qry.arg.apt.bounds
              /\ qry.out.id = qry.arg.apt.id

\* both indexes in range, the second node without latitude: no edge added
C20_NodeWithoutCoords ==
    /\ qry.fn = "AddTaxiEdge"
    /\ qry.arg.n1 = 0 /\ qry.arg.n2 = 3
    /\ Len(qry.arg.apt.vecTaxiNodes) = 4
    /\ ~isnan(qry.arg.apt.vecTaxiNodes[4].lon)
    /\ ~qry.ret
    /\ qry.out = qry.arg.apt

\* a step of the file reading thread that reads a line of the file
ReadsALine ==
    /\ scan.pc \in {"read", "taxi"}
    /\ scan.lnIdx < Len(Lines)
    /\ scan'.pc # "open"
    /\ scan'.lnIdx = scan.lnIdx + 1

\* C21: once the stop signal is set, the file reading thread reads no further
\* line of the file, also while it is inside a taxi line section.
C21_NoLineReadAfterStop == [][bStopThread => ~ReadsALine]_vars

\* every record of the airport in progress has been processed: the next line
\* to process is an airport header, or the file has no further line
AptCompleted(f) ==
    IF f.bProcessGivenLn
    THEN IsAptHeader(f.ln)
    ELSE \/ f.lnIdx >= Len(AllSourceLists[f.input][f.srcIdx].lines)
         \/ IsAptHeader(AllSourceLists[f.input][f.srcIdx].lines[f.lnIdx + 1])

\* C22: an airport is added to the map only when it is completed: Apt::AddApt
\* is called at the next airport header, or when every record up to the next
\* header or the end of the file has been processed, also when the thread was
\* stopped in between.
C22_InsertedWhenComplete ==
    scan.pc \in {"eof_add_wait", "eof_add_crit"} => AptCompleted(scan)

\* the airport has no taxi node, no runway endpoint and no edge
AptIsEmpty(apt) ==
    /\ apt.vecTaxiNodes = <<>>
    /\ apt.vecRwyEndPts = <<>>
    /\ apt.vecTaxiEdges = <<>>

\* the thread has just processed an airport header line
HeaderProcessed ==
    /\ scan.pc = "read"
    /\ ~scan.bProcessGivenLn
    /\ IsAptHeader(scan.ln)

\* the airport in progress is anonymous and holds nothing, and it is not
\* about to be added to the map
AnonymousStoresNothing ==
    scan.apt.id = "" =>
        /\ AptIsEmpty(scan.apt)
        /\ scan.pc \notin {"hdr_add_wait", "hdr_add_crit", "eof_add_wait", "eof_add_crit"}

\* a step leaves every entry of the map that it does not erase as it is
EntriesUntouched ==
    \A k \in DOMAIN gmapApt \cap DOMAIN gmapApt' : gmapApt'[k] = gmapApt[k]

\* C23: after a header whose id is already in the map the airport in progress
\* is anonymous; an anonymous airport stores none of the records that follow
\* and is never added; no step of the scan replaces or modifies an entry of
\* the map, so the definition added first stays.
C23_DuplicateIdIgnored ==
    /\ [](HeaderProcessed /\ scan.ln.id \in DOMAIN gmapApt => scan.apt.id = "")
    /\ []AnonymousStoresNothing
    /\ [][EntriesUntouched]_vars

\* the second source defines airport A again, with a taxi line; the thread
\* has read that taxi line to its end, and the map holds the definition of
\* the first source, which has no taxi line
C23_FirstDefinitionStays ==
    /\ scan.pc = "read"
    /\ scan.srcIdx = 2
    /\ Lines[1] = Hdr("A")
    /\ scan.lnIdx > Len(Lines)
    /\ scan.apt.id = ""
    /\ "A" \in DOMAIN gmapApt
    /\ gmapApt["A"].vecTaxiNodes = <<>>
    /\ gmapApt["A"].vecRwyEndPts[1].lon > 40

\* the line the next turn of the loop of ReadOneAptFile processes
LineToDispatch ==
    IF scan.bProcessGivenLn THEN scan.ln
    ELSE IF scan.lnIdx < Len(Lines) THEN Lines[scan.lnIdx + 1]
    ELSE EmptyLine

\* a step that is one turn of the loop of ReadOneAptFile
DispatchStep ==
    /\ scan.pc = "read"
    /\ ReadGoesOn
    /\ scan' # scan

\* a runway record with 26 fields, numbers, and its first end in range
WellFormedRwy(ln) ==
    /\ IsRwyLine(ln)
    /\ ln.nf = 26
    /\ ln.num
    /\ CoordsInRange(ln.lat, ln.lon)

\* the first runway of the airport in progress lies outside the search box:
\* the airport is given up
FirstRwyOutsideAbandons ==
    (/\ DispatchStep
     /\ HasId(scan.apt)
     /\ scan.apt.vecRwyEndPts = <<>>
     /\ WellFormedRwy(LineToDispatch)
     /\ ~contains(scan.box, positionTy(LineToDispatch.lat, LineToDispatch.lon)))
    => scan'.apt = Apt("")

\* an anonymous airport in progress gets an id from an airport header only
AnonymousUntilHeader ==
    (scan.apt.id = "" /\ scan'.apt.id # "") => scan.pc = "hdr_count"

\* the airport in progress has a runway: every later runway is taken
LaterRwyAccepted ==
    (/\ DispatchStep
     /\ HasId(scan.apt)
     /\ scan.apt.vecRwyEndPts # <<>>
     /\ WellFormedRwy(LineToDispatch))
    => scan'.apt = AddRwyEnds(scan.apt, LineToDispatch.lat, LineToDispatch.lon,
                              LineToDispatch.displaced, "1",
                              LineToDispatch.lat2, LineToDispatch.lon2,
                              LineToDispatch.displaced2, "2")

\* C24: an airport whose first well-formed runway lies outside the search box
\* is reset to anonymous, stays anonymous (holding nothing, never added) up to
\* the next header, so airport C is never added; once an airport has a runway
\* every later well-formed runway is taken, inside the box or not.
C24_FirstRunwayDecides ==
    /\ [][FirstRwyOutsideAbandons]_vars
    /\ [][AnonymousUntilHeader]_vars
    /\ [](scan.apt.id = "" => AptIsEmpty(scan.apt) /\ ~IsValid(scan.apt))
    /\ []("C" \notin DOMAIN gmapApt)
    /\ [][LaterRwyAccepted]_vars

\* airport D's second runway, outside the box, was taken; airport C, read
\* before it with its second runway and taxi line inside the box, was not
\* added
C24_AbandonedAndKept ==
    /\ scan.pc = "read"
    /\ Lines[1] = Hdr("C")
    /\ scan.apt.id = "D"
    /\ Len(scan.apt.vecRwyEndPts) = 4
    /\ ~contains(scan.box, positionTy(scan.apt.vecRwyEndPts[3].lat, scan.apt.vecRwyEndPts[3].lon))
    /\ "C" \notin DOMAIN gmapApt

\* the line at the read position of the file, empty beyond the end
LineAt(i) == IF i \in 1..Len(Lines) THEN Lines[i] ELSE EmptyLine

\* ReadOneTaxiLine returns: it has read at most one line in this step, and
\* hands the line it read last back to the loop of ReadOneAptFile
SectionEndHandsLineBack ==
    (scan.pc = "taxi" /\ scan'.pc = "read") =>
        /\ scan'.bProcessGivenLn
        /\ scan'.lnIdx \in {scan.lnIdx, scan.lnIdx + 1}
        /\ scan'.ln = LineAt(scan'.lnIdx)

\* the loop of ReadOneAptFile processes the line handed back without reading
\* another one, and clears the flag; a header closes the airport in progress,
\* a marker starts the next section
GivenLineDispatchedOnce ==
    (DispatchStep /\ scan.bProcessGivenLn) =>
        /\ scan'.lnIdx = scan.lnIdx
        /\ scan'.ln = scan.ln
        /\ ~scan'.bProcessGivenLn
        /\ scan' \in DispatchLine([scan EXCEPT !.bProcessGivenLn = FALSE])
        /\ IsAptHeader(scan.ln) => scan'.pc \in {"hdr_add_wait", "hdr_count"}
        /\ IsTaxiMarker(scan.ln) => scan'.pc = "taxi"

\* without a line handed back every turn of either loop reads the one next
\* line of the file
LinesReadInOrder ==
    /\ (DispatchStep /\ ~scan.bProcessGivenLn) =>
           /\ scan'.lnIdx = scan.lnIdx + 1
           /\ scan'.ln = LineAt(scan'.lnIdx)
    /\ (scan.pc = "taxi" /\ scan'.pc = "taxi" /\ scan' # scan) =>
           /\ scan'.lnIdx = scan.lnIdx + 1
           /\ scan'.ln = LineAt(scan'.lnIdx)

\* C25: the line that ends a taxi line section is handed back to the loop of
\* ReadOneAptFile and, unless the thread is stopped, processed there exactly
\* once without another line being read; all other lines are read one by one
\* in order; and the thread comes to its end on every file.
C25_SectionBoundary ==
    /\ [][SectionEndHandsLineBack]_vars
    /\ [][GivenLineDispatchedOnce]_vars
    /\ [][LinesReadInOrder]_vars
    /\ <>(scan.pc = "idle")

\* an airport header has ended a taxi line section and was processed by the
\* loop of ReadOneAptFile: the airport in progress is about to be added
C25_HeaderEndsSection ==
    /\ scan.pc = "hdr_add_wait"
    /\ ~scan.bProcessGivenLn
    /\ IsAptHeader(scan.ln)
    /\ scan.ln = LineAt(scan.lnIdx)
    /\ IsTaxiPointCode(LineAt(scan.lnIdx - 1).code)
    /\ scan.apt.vecTaxiNodes # <<>>

\* a step that closes the airport in progress: the loop of ReadOneAptFile
\* processes an airport header, or the loop is left
CloseOutStep ==
    \/ DispatchStep /\ IsAptHeader(LineToDispatch)
    \/ scan.pc = "read" /\ ~ReadGoesOn /\ scan' # scan

\* closing an airport: a valid one goes to Apt::AddApt, any other is dropped
ClosedOutProperly ==
    CloseOutStep =>
        IF IsValid(scan.apt)
        THEN /\ scan'.pc \in {"hdr_add_wait", "eof_add_wait"}
             /\ scan'.apt \in AddAptPrepare(scan.apt)
        ELSE /\ gmapApt' = gmapApt
             /\ scan'.apt = Apt("")

\* Apt::AddApt puts the airport into the map and leaves nothing to close again
AddedOnce ==
    (scan.pc \in {"hdr_add_crit", "eof_add_crit"} /\ scan' # scan) =>
        /\ gmapApt' = Emplace(gmapApt, scan.apt.id, scan.apt)
        /\ scan'.apt.id = ""
        /\ AptIsEmpty(scan'.apt)

\* C26: every airport in progress is closed exactly once, by the next airport
\* header or at the end of the file: added to the map if and only if it is
\* valid, dropped otherwise; the thread never leaves ReadOneAptFile with a
\* valid airport in progress that was not added.
C26_ClosedOutOnce ==
    /\ [][ClosedOutProperly]_vars
    /\ [][AddedOnce]_vars
    /\ [](scan.pc \in {"throw", "ret", "open"} => ~IsValid(scan.apt))

\* C27: right after an airport header was processed the airport in progress
\* has no taxi node, no runway endpoint and no edge, whatever became of the
\* previous airport; its id is the id of the header if the header has one
\* that is not in the map, and empty otherwise.
C27_FreshAfterHeader ==
    [][(scan.pc = "hdr_count" /\ scan'.pc = "read") =>
           /\ AptIsEmpty(scan'.apt)
           /\ scan'.apt.id = IF scan.ln.nf >= 5 /\ scan.ln.id \notin DOMAIN gmapApt
                             THEN scan.ln.id ELSE ""]_vars

\* the previous airport of the file was added, and the header that closed it
\* started an airport with a new id
C27_NextAirportStarted ==
    /\ HeaderProcessed
    /\ scan.lnIdx > 1
    /\ Lines[1].id \in DOMAIN gmapApt
    /\ Lines[1].id # scan.ln.id
    /\ gmapApt[Lines[1].id].vecTaxiNodes # <<>>
    /\ scan.apt = Apt(scan.ln.id)
    /\ scan.apt.id # ""

\* a turn of the loop of ReadOneAptFile extends the airport in progress by a
\* runway
RwyAdded ==
    /\ DispatchStep
    /\ IsRwyLine(LineToDispatch)
    /\ scan'.apt.id = scan.apt.id
    /\ Len(scan'.apt.vecRwyEndPts) > Len(scan.apt.vecRwyEndPts)

\* C28: a runway record extends the airport in progress (two endpoints and
\* the edge) only if the coordinates of both runway ends are in range,
\* latitude in [-90, 90] and longitude in [-180, 180).
C28_BothRwyEndsInRange ==
    [][RwyAdded =>
           /\ CoordsInRange(LineToDispatch.lat, LineToDispatch.lon)
           /\ CoordsInRange(LineToDispatch.lat2, LineToDispatch.lon2)]_vars

\* C29: the constructor stores a heading in [0, 180) for every raw heading in
\* [0, 360); it swaps the two nodes exactly when the raw heading is 180 or
\* more and then stores the heading less 180; the edge given from its other
\* end with the opposite heading is stored as the same edge.
C29_HeadingNormalized ==
    qry.fn = "TaxiEdge"
      => LET arg == qry.arg
             e == qry.out
         IN  /\ 0 <= e.angle /\ e.angle < 180
             /\ IF arg.angle >= 180
                THEN e.a = arg.b /\ e.b = arg.a /\ e.angle = arg.angle - 180
                ELSE e.a = arg.a /\ e.b = arg.b /\ e.angle = arg.angle
             /\ e.type = arg.t /\ e.dist_m = arg.dist_m
             /\ TaxiEdge(arg.t, arg.b, arg.a, (arg.angle + 180) % 360, arg.dist_m) = e

\* an edge from node 2 to node 0 with heading 270 is stored from node 0 to
\* node 2 with heading 90
C29_WestboundStoredEastbound ==
    /\ qry.fn = "TaxiEdge"
    /\ qry.arg.a = 2 /\ qry.arg.b = 0 /\ qry.arg.angle = 270
    /\ qry.out.a = 0 /\ qry.out.b = 2 /\ qry.out.angle = 90

\* the edges of every airport of the map are sorted by heading, ascending
AllEdgesSorted ==
    \A k \in DOMAIN gmapApt : IsSortedByHeading(gmapApt[k].vecTaxiEdges)

\* a step leaves the edges of every airport that stays in the map as they are
EdgesUntouched ==
    \A k \in DOMAIN gmapApt \cap DOMAIN gmapApt' :
        gmapApt'[k].vecTaxiEdges = gmapApt[k].vecTaxiEdges

\* C30: in every reachable state the edges of every airport of the map are
\* sorted by their normalized heading, and no step (altitude update, local
\* coordinates update, snapping, runway search, adding or purging another
\* airport) changes the order or the content of the edges of an airport of the
\* map.
C30_EdgesStaySorted == []AllEdgesSorted /\ [][EdgesUntouched]_vars

\* airport A is in the map with altitudes and local coordinates filled in;
\* its taxiway (heading 0), read after the runway (heading 90), comes first
C30_SortedAfterBackfill ==
    /\ "A" \in DOMAIN gmapApt
    /\ ~isnan(gmapApt["A"].alt_m)
    /\ Len(gmapApt["A"].vecTaxiEdges) = 2
    /\ HasLocalCoords(gmapApt["A"].vecRwyEndPts[1])
    /\ gmapApt["A"].vecTaxiEdges[1].type = "TAXI_WAY"
    /\ gmapApt["A"].vecTaxiEdges[2].type = "RUN_WAY"
    /\ gmapApt["A"].vecTaxiEdges[1].angle < gmapApt["A"].vecTaxiEdges[2].angle

\* LTAptFindRwy of the running call: the aircraft flies against the stored
\* direction of the runways it matches
CallInverted == HeadingNormalize(qry.arg.ac.heading) >= 180

\* the runways the running call of LTAptFindRwy looks at, in its order:
\* <<airport key, edge>>
CallCands ==
    RwyCandidates(qry.arg.map, SortedKeys(qry.arg.map),
                  IF CallInverted THEN HeadingNormalize(qry.arg.ac.heading) - 180
                  ELSE HeadingNormalize(qry.arg.ac.heading))

\* the runway endpoint the call aims at for its i-th runway
CandEndPt(i) ==
    IF CallInverted THEN GetB(CallCands[i][2], qry.arg.map[CallCands[i][1]])
    ELSE GetA(CallCands[i][2], qry.arg.map[CallCands[i][1]])

\* the heading deviation of the i-th runway: the turn from the aircraft's
\* heading to the bearing of the endpoint
CandDeviation(i) ==
    Abs(HeadingDiff(qry.arg.ac.heading,
                    CoordAngle(qry.arg.ac.lat, qry.arg.ac.lon,
                               CandEndPt(i).lat, CandEndPt(i).lon)))

\* the runways of the call that qualify: altitude known, vertical speed in
\* the envelope, deviation within the maximum
CandsQualifying == {i \in DOMAIN CallCands : RwyEndPtSuits(qry.arg.ac, CandEndPt(i))}

\* the qualifying runways of the smallest deviation
CandsBest ==
    {i \in CandsQualifying : \A j \in CandsQualifying : CandDeviation(i) <= CandDeviation(j)}

\* the call returned the endpoint of its i-th runway
ReturnedCand(i) ==
    /\ qry.ret
    /\ qry.out.lat = CandEndPt(i).lat
    /\ qry.out.lon = CandEndPt(i).lon
    /\ qry.out.alt_m = CandEndPt(i).alt_m
    /\ qry.out.heading = CallCands[i][2].angle + (IF CallInverted THEN 180 ELSE 0)

\* C31 as stated: of the qualifying runways of equal, smallest deviation the
\* one met first is returned.
C31_FirstOfEqualWins ==
    (qry.fn = "LTAptFindRwy" /\ CandsBest # {})
      => ReturnedCand(CHOOSE i \in CandsBest : \A j \in CandsBest : i <= j)

\* C31 amended: a runway replaces the best match unless its deviation is
\* greater, so of the qualifying runways of equal, smallest deviation the one
\* met last is returned.
C31_LastOfEqualWins ==
    (qry.fn = "LTAptFindRwy" /\ CandsBest # {})
      => ReturnedCand(CHOOSE i \in CandsBest : \A j \in CandsBest : i >= j)

\* the runways of A and B lie straight ahead, both qualify with deviation 0,
\* and the endpoint of B, met after the one of A, is returned
C31_TieGoesToLaterRunway ==
    /\ qry.fn = "LTAptFindRwy"
    /\ Cardinality(CandsBest) >= 2
    /\ \A i \in CandsBest : CandDeviation(i) = 0
    /\ CallCands[1][1] = "A" /\ 1 \in CandsBest
    /\ CallCands[2][1] = "B" /\ 2 \in CandsBest
    /\ qry.out.lat = CandEndPt(2).lat /\ qry.out.lon = CandEndPt(2).lon
    /\ qry.out.lon # CandEndPt(1).lon

\* the best match of the running call after its first n runways
CallBestAfter(n) ==
    RwyLoop(qry.arg.map, qry.arg.ac, CallInverted, SubSeq(CallCands, 1, n),
            [found |-> FALSE, apt |-> "", rwy |-> TaxiEdge("UNKNOWN_WAY", 0, 0, 0, NAN),
             rwyEndPt |-> RwyEndPt("", NAN, NAN),
             headingDiff |-> ART_RWY_MAX_HEAD_DIFF, arrivalTS |-> NAN])

\* the i-th runway of the call is turned down for its unknown altitude or for
\* the vertical speed it takes to reach it
CandTurnedDown(i) ==
    \/ isnan(CandEndPt(i).alt_m)
    \/ LET dist == CoordDistance(qry.arg.ac.lat, qry.arg.ac.lon,
                                 CandEndPt(i).lat, CandEndPt(i).lon)
           climb == (CandEndPt(i).alt_m - qry.arg.ac.alt_m) * qry.arg.ac.speed_m_s
       IN  climb < qry.arg.ac.vsi_min * dist \/ climb > qry.arg.ac.vsi_max * dist

\* C32: the endpoint LTAptFindRwy returns has the smallest heading deviation
\* of all qualifying runways of all airports (nothing is returned exactly if
\* none qualifies), and a runway turned down for its altitude or the vertical
\* speed leaves the best match, its deviation included, as it was.
C32_SmallestDeviationReturned ==
    qry.fn = "LTAptFindRwy" =>
      /\ qry.ret <=> CandsQualifying # {}
      /\ qry.ret => \E i \in CandsBest : ReturnedCand(i)
      /\ \A i \in DOMAIN CallCands :
            CandTurnedDown(i) => CallBestAfter(i) = CallBestAfter(i - 1)

\* the runway of A lies straight ahead but too far below the aircraft, the
\* one of C, 3 degrees off, is within reach and is the one returned
C32_BetterDeviationOutOfReach ==
    /\ qry.fn = "LTAptFindRwy" /\ qry.ret
    /\ \E i \in DOMAIN CallCands :
          /\ CandTurnedDown(i) /\ ~isnan(CandEndPt(i).alt_m)
          /\ CandDeviation(i) = 0
          /\ \E j \in CandsBest : j > i /\ CandDeviation(j) > 0 /\ ReturnedCand(j)
    /\ \E i \in DOMAIN CallCands : isnan(CandEndPt(i).alt_m)

\* the runway of the call whose endpoint was returned
ReturnedCands == {i \in DOMAIN CallCands : ReturnedCand(i)}

\* the other end of the i-th runway of the call
CandFarEndPt(i) ==
    IF CallInverted THEN GetA(CallCands[i][2], qry.arg.map[CallCands[i][1]])
    ELSE GetB(CallCands[i][2], qry.arg.map[CallCands[i][1]])

\* C33: whatever the aircraft's heading, the touchdown heading LTAptFindRwy
\* returns is within the maximum heading difference of it (on the circle),
\* and the endpoint returned is the end of the runway reached first: the
\* runway runs on from it in the direction of travel.  This includes runways
\* found where the search range wraps around 0/180 degrees.
C33_DirectionOfTravel ==
    (qry.fn = "LTAptFindRwy" /\ qry.ret) =>
      /\ Abs(HeadingDiff(qry.arg.ac.heading, qry.out.heading)) <= ART_RWY_MAX_HEAD_DIFF
      /\ \A i \in ReturnedCands :
            Abs(HeadingDiff(qry.arg.ac.heading,
                            CoordAngle(CandEndPt(i).lat, CandEndPt(i).lon,
                                       CandFarEndPt(i).lat, CandFarEndPt(i).lon))) < 90

\* C34: of the edges the thinning adds for a section, every one but the last
\* has a recorded length of at least APT_MIN_TAXI_SEGM_LEN_M; only the last
\* one, which ends at the last point of the section, may be shorter.
C34_OnlyLastEdgeShort ==
    qry.fn = "ReadOneTaxiLine"
      => \A i \in 1..(Len(EdgesAdded) - 1) :
            EdgesAdded[i].dist_m >= APT_MIN_TAXI_SEGM_LEN_M

\* a section of 4 points with gaps 12, 2, 2 has become an edge of 12 m and a
\* last edge of 4 m
C34_LongThenShortLast ==
    /\ qry.fn = "ReadOneTaxiLine"
    /\ Len(qry.arg.vecNodes) = 4
    /\ Len(EdgesAdded) = 2
    /\ EdgesAdded[1].dist_m = 12
    /\ EdgesAdded[2].dist_m = 4
    /\ EdgesAdded[2].dist_m < APT_MIN_TAXI_SEGM_LEN_M
    /\ {EdgesAdded[2].a, EdgesAdded[2].b}
         = {Len(qry.out.vecTaxiNodes) - 2, Len(qry.out.vecTaxiNodes) - 1}
    /\ qry.out.vecTaxiNodes[Len(qry.out.vecTaxiNodes)] = qry.arg.vecNodes[4]

\* the indices of every edge of the airport are distinct and within the
\* vector its type refers to: vecRwyEndPts for RUN_WAY, vecTaxiNodes otherwise
EdgeIndexesValid(apt) ==
    \A i \in DOMAIN apt.vecTaxiEdges :
        LET e == apt.vecTaxiEdges[i]
            n == IF e.type = "RUN_WAY" THEN Len(apt.vecRwyEndPts)
                 ELSE Len(apt.vecTaxiNodes)
        IN  /\ e.a # e.b
            /\ e.a >= 0 /\ e.a < n
            /\ e.b >= 0 /\ e.b < n

\* the places of the sequence s are the first places of t, in the same order
SamePlaces(s, t) ==
    /\ Len(s) <= Len(t)
    /\ \A i \in DOMAIN s : s[i].lat = t[i].lat /\ s[i].lon = t[i].lon

\* a step removes or reorders neither taxi nodes nor runway endpoints: the
\* airport being read is either started afresh or keeps what it has, a
\* registered airport keeps exactly what it has, and an airport is
\* registered with the nodes and endpoints it was read with
NodesKept ==
    /\ \/ scan'.apt.vecTaxiNodes = <<>> /\ scan'.apt.vecRwyEndPts = <<>>
       \/ /\ SamePlaces(scan.apt.vecTaxiNodes, scan'.apt.vecTaxiNodes)
          /\ SamePlaces(scan.apt.vecRwyEndPts, scan'.apt.vecRwyEndPts)
    /\ \A k \in DOMAIN gmapApt' :
          LET before == IF k \in DOMAIN gmapApt THEN gmapApt[k] ELSE scan.apt
          IN  /\ SamePlaces(before.vecTaxiNodes, gmapApt'[k].vecTaxiNodes)
              /\ SamePlaces(gmapApt'[k].vecTaxiNodes, before.vecTaxiNodes)
              /\ SamePlaces(before.vecRwyEndPts, gmapApt'[k].vecRwyEndPts)
              /\ SamePlaces(gmapApt'[k].vecRwyEndPts, before.vecRwyEndPts)

\* C35: in the airport being read and in every registered airport the two
\* indices of each RUN_WAY edge are distinct and in range of vecRwyEndPts,
\* those of each other edge distinct and in range of vecTaxiNodes; and no
\* step removes or reorders taxi nodes or runway endpoints.
C35_EdgeIndexesStayValid ==
    /\ [](EdgeIndexesValid(scan.apt) /\ \A k \in DOMAIN gmapApt : EdgeIndexesValid(gmapApt[k]))
    /\ [][NodesKept]_vars

\* a registered airport with a runway edge and a taxiway edge, read by a
\* scan, after the backfill of the local coordinates
C35_EdgesReadAndRegistered ==
    /\ nScans >= 1
    /\ \E k \in DOMAIN gmapApt :
          /\ \E e \in Range(gmapApt[k].vecTaxiEdges) : e.type = "RUN_WAY"
          /\ \E e \in Range(gmapApt[k].vecTaxiEdges) : e.type = "TAXI_WAY"
          /\ Len(gmapApt[k].vecTaxiNodes) >= 2
          /\ HasLocalCoords(gmapApt[k].vecTaxiNodes[1])
          /\ HasLocalCoords(gmapApt[k].vecRwyEndPts[1])

\* the step in which LTAptUpdateRwyAltitudes loops over all airports
AltitudesStep == fgpc = "alt_crit" /\ fgpc' # "alt_crit"

\* C36: no step changes the altitude of a runway endpoint of a registered
\* airport once it is known; an unknown one changes only when
\* UpdateAltitudes probes the terrain at it, and stays unknown if the probe
\* fails; the altitude of the airport itself is probed anew in every call.
C36_KnownAltitudeKept ==
    [][\A k \in DOMAIN gmapApt \cap DOMAIN gmapApt' :
          /\ Len(gmapApt'[k].vecRwyEndPts) = Len(gmapApt[k].vecRwyEndPts)
          /\ \A i \in DOMAIN gmapApt[k].vecRwyEndPts :
                IF ~isnan(gmapApt[k].vecRwyEndPts[i].alt_m) \/ ~AltitudesStep
                THEN gmapApt'[k].vecRwyEndPts[i].alt_m = gmapApt[k].vecRwyEndPts[i].alt_m
                ELSE gmapApt'[k].vecRwyEndPts[i].alt_m \in {TerrainAlt_m, NAN}
          /\ IF AltitudesStep
             THEN \E ok \in ProbeOutcomes(gmapApt) :
                     /\ gmapApt'[k].alt_m = YProbe_at_m(center(gmapApt[k].bounds), ok)
                     /\ \A i \in DOMAIN gmapApt[k].vecRwyEndPts :
                           isnan(gmapApt[k].vecRwyEndPts[i].alt_m)
                             => gmapApt'[k].vecRwyEndPts[i].alt_m
                                  = YProbe_at_m(positionTy(gmapApt[k].vecRwyEndPts[i].lat,
                                                           gmapApt[k].vecRwyEndPts[i].lon), ok)
             ELSE gmapApt'[k].alt_m = gmapApt[k].alt_m]_vars

\* a registered airport whose runway endpoints have the altitude of a first
\* call, while the altitude of the airport itself is unknown again after a
\* later call whose probes failed
C36_EndpointsKeptAirportProbedAnew ==
    \E k \in DOMAIN gmapApt :
        /\ Len(gmapApt[k].vecRwyEndPts) >= 2
        /\ \A i \in DOMAIN gmapApt[k].vecRwyEndPts :
              gmapApt[k].vecRwyEndPts[i].alt_m = TerrainAlt_m
        /\ isnan(gmapApt[k].alt_m)
        /\ fgpc = "idle"

\* where the file reading thread is inside PurgeApt or Apt::AddApt, behind
\* the lock_guard
BgInPurgeOrAdd == scan.pc \in {"purge", "hdr_add_crit", "eof_add_crit"}

\* C37: the file reading thread holds the lock on the map exactly while it
\* is inside PurgeApt or Apt::AddApt; no step of it that opens a source or
\* reads and handles a line is taken with the lock held by it, nor takes it.
C37_LockOnlyForPurgeAndAdd ==
    /\ [](mtxGMapApt = "bg" <=> BgInPurgeOrAdd)
    /\ [][(scan' # scan /\ scan.pc \in {"open", "read", "taxi", "hdr_count"})
            => (mtxGMapApt # "bg" /\ mtxGMapApt' = mtxGMapApt)]_vars

\* the thread has registered an airport and goes on reading lines of the
\* source while the foreground holds the lock
C37_ReadingWhileForegroundLocks ==
    /\ scan.pc = "read"
    /\ scan.lnIdx > 0
    /\ mtxGMapApt = "fg"
    /\ DOMAIN gmapApt # {}
    /\ fInGood(scan)

\* where the main thread is behind the lock_guard of one of its functions
FgInLockedFunction == fgpc \in {"alt_crit", "lc_crit", "snap_crit", "rwy_crit"}

\* C38: the lock on the map is held by the main thread exactly while it is
\* inside LTAptUpdateRwyAltitudes, LTAptLocalCoordsUpdate, LTAptSnap or
\* LTAptFindRwy, and a thread waiting for the lock does not hold it; the
\* lock is taken only when free, so never by the thread that holds it; the
\* main thread releases it with the step that leaves the function, and the
\* file reading thread, once it holds the lock, comes to release it: no
\* deadlock.
C38_LockTakenFreeAndReleased ==
    /\ [](mtxGMapApt = "fg" <=> FgInLockedFunction)
    /\ [](scan.pc \in {"purge_wait", "hdr_add_wait", "eof_add_wait"} => mtxGMapApt # "bg")
    /\ [](fgpc \in {"alt_wait", "lc_wait"} => mtxGMapApt # "fg")
    /\ [][mtxGMapApt' # mtxGMapApt => (mtxGMapApt = "free" \/ mtxGMapApt' = "free")]_vars
    /\ [][(FgInLockedFunction /\ fgpc' # fgpc) => mtxGMapApt' = "free"]_vars
    /\ ((mtxGMapApt = "bg") ~> (mtxGMapApt # "bg"))

\* LTAptSnap holds the lock while the file reading thread waits for it to
\* register the airport it has read
C38_ScanWaitsForSnap ==
    /\ fgpc = "snap_crit"
    /\ mtxGMapApt = "fg"
    /\ scan.pc \in {"hdr_add_wait", "eof_add_wait"}
    /\ DOMAIN gmapApt # {}

\* the step of LTAptRefresh that launches a scan, none being in flight
LaunchStep ==
    /\ futRefreshing # "running" /\ scan.pc = "idle"
    /\ futRefreshing' = "running" /\ scan'.pc # "idle"
    /\ nScans' = nScans + 1
    /\ fgpc = "idle"

\* C39: bStopThread goes back to false only in the step of LTAptRefresh that
\* launches a new scan, and never while a scan is in flight: as long as the
\* scan that was asked to stop has not exited, the flag stays set.
C39_StopNotRevoked ==
    /\ [][(bStopThread /\ ~bStopThread') => LaunchStep]_vars
    /\ [][(bStopThread /\ (futRefreshing = "running" \/ scan.pc # "idle"))
            => bStopThread']_vars
    /\ [](fgpc = "dis_wait" => bStopThread)

\* the scan has seen the stop flag with sources left to read and is about
\* to exit, while LTAptDisable still waits for it
C39_ScanStoppedEarly ==
    /\ bStopThread
    /\ fgpc = "dis_wait"
    /\ futRefreshing = "running"
    /\ scan.pc = "ret"
    /\ scan.srcIdx <= Len(Sources)

\* the step in which LTAptSnap finds the airport and snaps
SnapStep == fgpc = "snap_crit" /\ fgpc' = "qry_ret"

\* both nodes of the edge have local coordinates
EdgeHasLocalCoords(apt, e) ==
    HasLocalCoords(GetA(e, apt)) /\ HasLocalCoords(GetB(e, apt))

\* no taxi node and no runway endpoint of the airport has local coordinates
NoLocalCoords(apt) ==
    /\ \A i \in DOMAIN apt.vecTaxiNodes : ~HasLocalCoords(apt.vecTaxiNodes[i])
    /\ \A i \in DOMAIN apt.vecRwyEndPts : ~HasLocalCoords(apt.vecRwyEndPts[i])

\* C40: LTAptSnap succeeds only on an airport with an edge whose two nodes
\* have local coordinates; an airport is registered by the scan without any,
\* and gets them only in LTAptLocalCoordsUpdate; LTAptSnap on an airport
\* without them returns false and leaves the position as it is.
C40_NoSnapBeforeLocalCoords ==
    /\ [][SnapStep =>
            LET k == LTAptFind(gmapApt, qry.arg)
            IN  /\ qry'.ret
                     => /\ k # ""
                        /\ \E e \in Range(gmapApt[k].vecTaxiEdges) :
                              EdgeHasLocalCoords(gmapApt[k], e)
                /\ (k # "" /\ NoLocalCoords(gmapApt[k]))
                     => (~qry'.ret /\ qry'.out = qry.arg)]_vars
    /\ [][\A k \in DOMAIN gmapApt' \ DOMAIN gmapApt : NoLocalCoords(gmapApt'[k])]_vars
    /\ [][\A k \in DOMAIN gmapApt \cap DOMAIN gmapApt' :
             (NoLocalCoords(gmapApt[k]) /\ ~NoLocalCoords(gmapApt'[k]))
               => (fgpc = "lc_crit" /\ fgpc' # "lc_crit")]_vars

\* the scan is over and has registered airport A, the backfill has not run
\* yet, and LTAptSnap next to A's taxiway has returned false with the
\* position as passed in
C40_SnapFailsOnFreshAirport ==
    /\ fgpc = "qry_ret" /\ qry.fn = "LTAptSnap"
    /\ ~qry.ret /\ qry.out = qry.arg
    /\ qry.arg = SnapPos(3, 12, 0)
    /\ LTAptFind(gmapApt, qry.arg) = "A"
    /\ NoLocalCoords(gmapApt["A"])
    /\ \E e \in Range(gmapApt["A"].vecTaxiEdges) : e.type = "TAXI_WAY"
    /\ scan.pc = "idle" /\ futRefreshing = "ready" /\ bAptsAdded

====
